---------------------------- MODULE Spec2Model ----------------------------
(***************************************************************************)
(* JurisTST (src/app.js): the catalogue of case-law items, the personal    *)
(* stores (favoritos, anotacoes, tags, correlacoes), the uploaded          *)
(* documents (informativos, tesesVinculantes), their durable copies in     *)
(* localStorage and the dataset load.                                      *)
(*                                                                         *)
(* Strings whose characters matter (numbers, tags, organ names, ids) are   *)
(* sequences of one-character strings; the empty sequence stands for the   *)
(* empty string and for undefined, which JavaScript's || and if treat      *)
(* alike.  Fixed tokens (tipo, source, storage keys) are TLA+ strings.     *)
(* JavaScript objects used as maps are functions whose DOMAIN is the set   *)
(* of own keys.                                                            *)
(***************************************************************************)
EXTENDS Integers, Sequences, FiniteSets, TLC

(***************************************************************************)
(* Bounds of the model.                                                    *)
(***************************************************************************)
\* longest list a payload collection, an organ group or a stored upload list has
MaxLista == 2
\* user operations in one behaviour of Spec
MaxPassos == 3
\* page reloads in one behaviour
MaxRecargas == 1
\* ticks of the clock Date.now() reads
MaxRelogio == 2
\* uploads in flight at once, per kind
MaxEnvios == 1

(***************************************************************************)
(* Strings.                                                                *)
(***************************************************************************)
Digitos == <<"0", "1", "2", "3", "4", "5", "6", "7", "8", "9">>

\* the characters /[a-zA-Z0-9]/ matches, among those the model uses
Alfanumericos ==
    {Digitos[i] : i \in 1..10} \cup
    {"A", "B", "C", "D", "I", "S", "T",
     "a", "b", "c", "d", "i", "l", "n", "o", "p", "s", "t", "u"}

\* the white space String.prototype.trim removes, among the characters used
Brancos == {" ", "\t"}

RECURSIVE trimInicio(_)
trimInicio(s) ==
    IF s # <<>> /\ Head(s) \in Brancos THEN trimInicio(Tail(s)) ELSE s

RECURSIVE trimFim(_)
trimFim(s) ==
    IF s # <<>> /\ s[Len(s)] \in Brancos
    THEN trimFim(SubSeq(s, 1, Len(s) - 1))
    ELSE s

\* String.prototype.trim
trim(s) == trimFim(trimInicio(s))

\* String(n) of a non-negative integer
RECURSIVE String(_)
String(n) ==
    IF n < 10 THEN <<Digitos[n + 1]>>
    ELSE String(n \div 10) \o <<Digitos[(n % 10) + 1]>>

\* Array.prototype.includes
includes(lista, x) == \E i \in 1..Len(lista) : lista[i] = x

\* Array.prototype.filter keeping the elements different from x
filterDiferente(lista, x) == SelectSeq(lista, LAMBDA e : e # x)

\* a mutant of spliceUm: the last element is removed, whichever it is
spliceUltimo(lista, x) == SubSeq(lista, 1, Len(lista) - 1)

\* lista.splice(lista.indexOf(x), 1) for an x the list holds
spliceUm(lista, x) ==
    LET k == CHOOSE i \in 1..Len(lista) :
                  lista[i] = x /\ \A j \in 1..(i - 1) : lista[j] # x
    IN  SubSeq(lista, 1, k - 1) \o SubSeq(lista, k + 1, Len(lista))

\* obj[k] = v on a map
Put(m, k, v) == [x \in DOMAIN m \cup {k} |-> IF x = k THEN v ELSE m[x]]

\* delete obj[k] on a map
Delete(m, k) == [x \in DOMAIN m \ {k} |-> m[x]]

\* {} : the map with no key
MapaVazio == [x \in {} |-> <<>>]

(***************************************************************************)
(* Identity assigner.                                                      *)
(***************************************************************************)
\* tipo.toLowerCase() on the tipo tokens
toLowerCaseTipo(tipo) ==
    CASE tipo = "IRR" -> "irr"
      [] tipo = "IRDR" -> "irdr"
      [] tipo = "IAC" -> "iac"
      [] OTHER -> tipo

\* the cleaned key: trim, then drop every character outside [a-zA-Z0-9]
idLimpo(identificador) ==
    SelectSeq(trim(identificador), LAMBDA c : c \in Alfanumericos)

\* The id is the string prefix + cleaned key; the prefix, separator included,
\* is the first element and the cleaned key's characters follow.
gerarIdConsistente(tipo, identificador) ==
    LET t == toLowerCaseTipo(tipo)
    IN  CASE t = "sumula" -> <<"sumula_">> \o idLimpo(identificador)
          [] t = "oj" -> <<"oj_">> \o idLimpo(identificador)
          [] t \in {"precedente", "precedente_normativo"} ->
                <<"precedente_">> \o idLimpo(identificador)
          [] t = "informativo" -> <<"informativo_">> \o idLimpo(identificador)
          [] t \in {"tese", "irr", "irdr", "iac"} ->
                <<"tese-">> \o idLimpo(identificador)
          [] OTHER -> <<tipo, "_">> \o idLimpo(identificador)

(***************************************************************************)
(* State.                                                                  *)
(***************************************************************************)
VARIABLES
    dadosTST,          \* the raw dataset object (let dadosTST)
    todosItens,        \* the merged collection
    itensFiltrados,    \* the current result set
    favoritos,         \* list of ids
    anotacoes,         \* map id -> text
    tags,              \* map id -> list of tags
    correlacoes,       \* map id -> list of ids
    informativos,      \* uploaded bulletins
    tesesVinculantes,  \* uploaded theses
    stats,             \* {total, vigentes, canceladas}
    localStorage,      \* durable storage: key -> stored text
    remoto,            \* what the server answers to fetch('tst_data_complete.json')
    pc,                \* where the page's load is
    relogio,           \* Date.now()
    extraindo,         \* uploads whose text extraction has not settled yet
    lendo,             \* uploads whose FileReader has not called onload yet
    passos,            \* user operations done so far
    recargas,          \* page reloads so far
    idsAtribuidos,     \* every assignment of an id a merge has made (atribuidos)
    alternados,        \* the ids toggleFavorito has been called with, in order
    statusFiltro,      \* 'todos', 'vigentes' or 'canceladas'
    currentTab,        \* the active tab
    filtro             \* the values of the five filter inputs of the page

memoria ==
    <<dadosTST, todosItens, itensFiltrados, favoritos, anotacoes, tags,
      correlacoes, informativos, tesesVinculantes, stats>>

ambiente == <<localStorage, remoto, pc, relogio, extraindo, lendo, passos,
              recargas, idsAtribuidos, alternados, statusFiltro, currentTab,
                   filtro>>

vars == <<memoria, ambiente>>

(***************************************************************************)
(* Correlations.                                                           *)
(***************************************************************************)
\* a mutant of adicionarCorrelacaoMem: only id1's list receives the edge
adicionarCorrelacaoSoIda(c, id1, id2) ==
    LET c1 == IF id1 \in DOMAIN c THEN c ELSE Put(c, id1, <<>>)
    IN  IF includes(c1[id1], id2) THEN c1
        ELSE [c1 EXCEPT ![id1] = Append(@, id2)]

\* a mutant of adicionarCorrelacaoMem: the ids are pushed without a look at
\* the lists
adicionarCorrelacaoSemIncludes(c, id1, id2) ==
    LET c1 == IF id1 \in DOMAIN c THEN c ELSE Put(c, id1, <<>>)
        c2 == IF id2 \in DOMAIN c1 THEN c1 ELSE Put(c1, id2, <<>>)
        c3 == [c2 EXCEPT ![id1] = Append(@, id2)]
        c4 == [c3 EXCEPT ![id2] = Append(@, id1)]
    IN  c4

\* what adicionarCorrelacao(id1, id2) makes of the map correlacoes
adicionarCorrelacaoMem(c, id1, id2) ==
    LET c1 == IF id1 \in DOMAIN c THEN c ELSE Put(c, id1, <<>>)
        c2 == IF id2 \in DOMAIN c1 THEN c1 ELSE Put(c1, id2, <<>>)
        c3 == IF includes(c2[id1], id2) THEN c2
              ELSE [c2 EXCEPT ![id1] = Append(@, id2)]
        c4 == IF includes(c3[id2], id1) THEN c3
              ELSE [c3 EXCEPT ![id2] = Append(@, id1)]
    IN  c4

\* a mutant of removerCorrelacaoMem: a list that becomes empty keeps its key
removerCorrelacaoSemDelete(c, id1, id2) ==
    LET c1 == IF id1 \in DOMAIN c
              THEN [c EXCEPT ![id1] = filterDiferente(c[id1], id2)]
              ELSE c
        c2 == IF id2 \in DOMAIN c1
              THEN [c1 EXCEPT ![id2] = filterDiferente(c1[id2], id1)]
              ELSE c1
    IN  c2

\* what removerCorrelacao(id1, id2) makes of the map correlacoes
removerCorrelacaoMem(c, id1, id2) ==
    LET c1 == IF id1 \in DOMAIN c
              THEN LET l == filterDiferente(c[id1], id2)
                   IN  IF Len(l) = 0 THEN Delete(c, id1)
                       ELSE [c EXCEPT ![id1] = l]
              ELSE c
        c2 == IF id2 \in DOMAIN c1
              THEN LET l == filterDiferente(c1[id2], id1)
                   IN  IF Len(l) = 0 THEN Delete(c1, id2)
                       ELSE [c1 EXCEPT ![id2] = l]
              ELSE c1
    IN  c2


(***************************************************************************)
(* Durable storage.  A stored text is absent (getItem answers null), text  *)
(* JSON.parse throws on, or the JSON text of a value.  The values stored   *)
(* are strings, arrays and plain objects of strings, which JSON.stringify  *)
(* writes and JSON.parse reads back deep-equal; a map's key order, the     *)
(* only thing the text has and the function has not, is read by no code.   *)
(***************************************************************************)
Nulo == [forma |-> "null"]

Corrompido == [forma |-> "corrompido"]

\* JSON.stringify(v)
JSONstringify(v) == [forma |-> "json", valor |-> v]

\* whether JSON.parse(texto) returns (it throws a SyntaxError otherwise)
JSONparseOk(texto) == texto.forma = "json"

\* JSON.parse(texto), for a text it returns on
JSONparse(texto) == texto.valor

\* localStorage.setItem(chave, JSON.stringify(v)), a write that succeeds
setItem(ls, chave, v) == [ls EXCEPT ![chave] = JSONstringify(v)]

\* localStorage.removeItem(chave)
removeItem(ls, chave) == [ls EXCEPT ![chave] = Nulo]

\* the six store keys, in the order carregarDados reads them
ChavesStores ==
    <<"juristst_favoritos", "juristst_anotacoes", "juristst_tags",
      "juristst_correlacoes", "juristst_informativos", "juristst_teses">>

ChaveDados == "juristst_data"

Chaves == {ChavesStores[i] : i \in 1..Len(ChavesStores)} \cup {ChaveDados}

(***************************************************************************)
(* The dataset payload.  A collection of the payload is absent, a value of *)
(* another shape, a list of items or (ojs) a map from organ to a value.    *)
(***************************************************************************)
Ausente == [forma |-> "ausente"]

\* a value that is no array (sumulas, precedentes_normativos, an organ
\* group) and, for ojs, no object at all
Outro == [forma |-> "outro"]

Lista(itens) == [forma |-> "lista", itens |-> itens]

\* the entries are in Object.entries order
Mapa(grupos) == [forma |-> "mapa", grupos |-> grupos]

\* a payload that is no object: null, a number, a string, a boolean
Escalar == [classe |-> "escalar"]

Objeto(s, o, pn) ==
    [classe |-> "objeto", sumulas |-> s, ojs |-> o,
     precedentes_normativos |-> pn, precedentes |-> Ausente]

\* let dadosTST = {sumulas: [], ojs: [], precedentes: []}
DadosIniciais ==
    [classe |-> "objeto", sumulas |-> Lista(<<>>), ojs |-> Lista(<<>>),
     precedentes_normativos |-> Ausente, precedentes |-> Lista(<<>>)]

\* an item of the catalogue; a field the JavaScript object lacks is <<>>
\* (or FALSE for cancelada)
Item(id, numero, tipo, orgao, cancelada, source, nome, tema) ==
    [id |-> id, numero |-> numero, tipo |-> tipo, orgao |-> orgao,
     cancelada |-> cancelada, source |-> source, nome |-> nome, tema |-> tema,
     titulo |-> <<>>, texto |-> <<>>, textoExtraido |-> <<>>]

\* an item with the text the search reads: titulo, texto and textoExtraido
ComTexto(item, titulo, texto, textoExtraido) ==
    [item EXCEPT !.titulo = titulo, !.texto = texto, !.textoExtraido = textoExtraido]

\* an item as the dataset holds it
ItemBruto(numero, cancelada) ==
    Item(<<>>, numero, "", <<>>, cancelada, "", <<>>, <<>>)

\* an uploaded document as stored
ItemEnviado(id, nome, tipo, source, tema) ==
    Item(id, <<>>, tipo, <<>>, FALSE, source, nome, tema)

(***************************************************************************)
(* Organ names.                                                            *)
(***************************************************************************)
\* String.prototype.toUpperCase on one character
toUpperCaseChar(c) ==
    CASE c = "s" -> "S" [] c = "b" -> "B" [] c = "d" -> "D" [] c = "i" -> "I"
      [] c = "c" -> "C" [] c = "t" -> "T" [] OTHER -> c

toUpperCase(s) == [i \in 1..Len(s) |-> toUpperCaseChar(s[i])]

\* String.prototype.indexOf, 1-based, 0 when pat does not occur
indexOf(s, pat) ==
    LET ks == {k \in 1..(Len(s) - Len(pat) + 1) :
                    SubSeq(s, k, k + Len(pat) - 1) = pat}
    IN  IF ks = {} THEN 0 ELSE CHOOSE k \in ks : \A j \in ks : k <= j

\* String.prototype.replace with a string pattern: the first occurrence
replace(s, pat, rep) ==
    LET k == indexOf(s, pat)
    IN  IF k = 0 THEN s
        ELSE SubSeq(s, 1, k - 1) \o rep \o SubSeq(s, k + Len(pat), Len(s))

\* String.prototype.replace(/_/g, '-')
replaceSublinhados(s) == [i \in 1..Len(s) |-> IF s[i] = "_" THEN "-" ELSE s[i]]

\* orgaoFormatado of processarDadosCarregados
formatarOrgao(orgao) ==
    LET u == toUpperCase(orgao)
        f == IF indexOf(u, <<"S", "B", "D", "I">>) # 0
             THEN replace(replace(replace(replace(u,
                      <<"S", "B", "D", "I", "1", "_">>,
                      <<"S", "B", "D", "I", "-", "1", "-">>),
                      <<"S", "B", "D", "I", "2", "_">>,
                      <<"S", "B", "D", "I", "-", "2", "-">>),
                      <<"S", "B", "D", "I", "1">>,
                      <<"S", "B", "D", "I", "-", "1">>),
                      <<"S", "B", "D", "I", "2">>,
                      <<"S", "B", "D", "I", "-", "2">>)
             ELSE u
    IN  replaceSublinhados(f)


(***************************************************************************)
(* The merge: processarDadosCarregados.                                    *)
(***************************************************************************)
\* !dadosTST || typeof dadosTST !== 'object' is false
ehObjeto(d) == d.classe # "escalar"

\* Array.isArray(c) ? c : []
arrayOuVazio(c) == IF c.forma = "lista" THEN c.itens ELSE <<>>

\* Object.entries(dadosTST.ojs) where dadosTST.ojs is an object, no entry
\* otherwise; the entries of an array are its items under their indices
entradasOjs(o) ==
    CASE o.forma = "mapa" -> o.grupos
      [] o.forma = "lista" ->
            [i \in 1..Len(o.itens) |-> [orgao |-> String(i - 1), valor |-> Outro]]
      [] OTHER -> <<>>

\* ojs.map(oj => ({...oj, orgao: orgaoFormatado})) of one entry, [] for an
\* entry whose value is no array
ojsComOrgao(entrada) ==
    IF entrada.valor.forma = "lista"
    THEN [i \in 1..Len(entrada.valor.itens) |->
            [entrada.valor.itens[i] EXCEPT !.orgao = formatarOrgao(entrada.orgao)]]
    ELSE <<>>

\* a mutant of ojsArray: a later organ group is put before the earlier ones
RECURSIVE ojsArrayInvertido(_)
ojsArrayInvertido(entradas) ==
    IF entradas = <<>> THEN <<>>
    ELSE ojsArrayInvertido(Tail(entradas)) \o ojsComOrgao(Head(entradas))

\* ojsArray after the for-of loop over the entries
RECURSIVE ojsArray(_)
ojsArray(entradas) ==
    IF entradas = <<>> THEN <<>>
    ELSE ojsComOrgao(Head(entradas)) \o ojsArray(Tail(entradas))

\* a mutant of normalizarDados: a sumulas that is no array empties the
\* other collections too
normalizarDadosTudoOuNada(d) ==
    IF d.sumulas.forma = "lista"
    THEN [d EXCEPT !.sumulas = Lista(arrayOuVazio(d.sumulas)),
                   !.ojs = Lista(ojsArray(entradasOjs(d.ojs))),
                   !.precedentes = Lista(arrayOuVazio(d.precedentes_normativos))]
    ELSE [d EXCEPT !.sumulas = Lista(<<>>),
                   !.ojs = Lista(<<>>),
                   !.precedentes = Lista(<<>>)]

\* dadosTST after the three collections are normalised (lines 183-223)
normalizarDados(d) ==
    [d EXCEPT !.sumulas = Lista(arrayOuVazio(d.sumulas)),
              !.ojs = Lista(ojsArray(entradasOjs(d.ojs))),
              !.precedentes = Lista(arrayOuVazio(d.precedentes_normativos))]

\* {...item, tipo: item.tipo || colecao, id: gerarIdConsistente(colecao,
\* item.numero), source: 'jurisprudencia'}
itemJurisprudencia(item, colecao) ==
    [item EXCEPT !.tipo = IF item.tipo # "" THEN item.tipo ELSE colecao,
                 !.id = gerarIdConsistente(colecao, item.numero),
                 !.source = "jurisprudencia"]

\* a mutant of mapJurisprudencia: the id comes from the item's position
mapJurisprudenciaPorPosicao(lista, colecao) ==
    [i \in 1..Len(lista) |->
        [itemJurisprudencia(lista[i], colecao) EXCEPT
            !.id = gerarIdConsistente(colecao, String(i - 1))]]

\* lista.map(item => itemJurisprudencia(item))
mapJurisprudencia(lista, colecao) ==
    [i \in 1..Len(lista) |-> itemJurisprudencia(lista[i], colecao)]

\* the array literal of lines 231-250, from the normalised dadosTST
itensJurisprudencia(d) ==
    mapJurisprudencia(d.sumulas.itens, "sumula")
        \o mapJurisprudencia(d.ojs.itens, "oj")
        \o mapJurisprudencia(d.precedentes.itens, "precedente")

\* a mutant of itemInformativo: the id is always computed
itemInformativoRecalculado(info, index) ==
    [info EXCEPT !.id = gerarIdConsistente("informativo", String(index)),
                 !.tipo = "informativo",
                 !.source = "informativo"]

\* {...info, id: info.id || gerarIdConsistente('informativo', index),
\*  tipo: 'informativo', source: 'informativo'}
itemInformativo(info, index) ==
    [info EXCEPT !.id = IF info.id # <<>> THEN info.id
                        ELSE gerarIdConsistente("informativo", String(index)),
                 !.tipo = "informativo",
                 !.source = "informativo"]

\* teseComId: {...tese, id: tese.id || gerarIdConsistente('tese', tese.tema),
\*  source: 'tese', tipo: tese.tipo || 'IRR'}
itemTese(tese) ==
    [tese EXCEPT !.id = IF tese.id # <<>> THEN tese.id
                        ELSE gerarIdConsistente("tese", tese.tema),
                 !.source = "tese",
                 !.tipo = IF tese.tipo # "" THEN tese.tipo ELSE "IRR"]

\* what the two forEach loops push (lines 255-277)
itensEnviados(infos, teses) ==
    [i \in 1..Len(infos) |-> itemInformativo(infos[i], i - 1)]
        \o [i \in 1..Len(teses) |-> itemTese(teses[i])]

\* Array.prototype.filter(item => item.source === 'jurisprudencia')
filterJurisprudencia(itens) ==
    SelectSeq(itens, LAMBDA item : item.source = "jurisprudencia")

\* a mutant of calcularEstatisticas: every item is counted
calcularEstatisticasDeTodos(itens) ==
    [total |-> Len(itens),
     vigentes |-> Len(SelectSeq(itens, LAMBDA item : ~item.cancelada)),
     canceladas |-> Len(SelectSeq(itens, LAMBDA item : item.cancelada))]

\* calcularEstatisticas
calcularEstatisticas(itens) ==
    LET j == filterJurisprudencia(itens)
    IN  [total |-> Len(j),
         vigentes |-> Len(SelectSeq(j, LAMBDA item : ~item.cancelada)),
         canceladas |-> Len(SelectSeq(j, LAMBDA item : item.cancelada))]

\* what one merge assigns: <<the load, the collection, the position in it,
\* the item's numero, the id it receives>>
atribuidos(d, recarga) ==
    LET de(lista, colecao) ==
            LET m == mapJurisprudencia(lista, colecao)
            IN  {<<recarga, colecao, i, lista[i].numero, m[i].id>> : i \in 1..Len(lista)}
    IN  de(d.sumulas.itens, "sumula") \cup de(d.ojs.itens, "oj")
            \cup de(d.precedentes.itens, "precedente")

\* processarDadosCarregados on the dadosTST just assigned (d), with the
\* uploaded lists as they are then: the catch shows a toast and leaves the
\* state as the throw found it
processarDadosCarregados(d, infos, teses) ==
    IF ~ehObjeto(d)
    THEN /\ dadosTST' = d
         /\ pc' = "erro_processar"
         /\ UNCHANGED <<todosItens, itensFiltrados, stats, idsAtribuidos>>
    ELSE LET n == normalizarDados(d)
             todos == itensJurisprudencia(n) \o itensEnviados(infos, teses)
         IN  /\ dadosTST' = n
             /\ todosItens' = todos
             /\ stats' = calcularEstatisticas(todos)
             /\ itensFiltrados' = filterJurisprudencia(todos)
             /\ idsAtribuidos' = idsAtribuidos \cup atribuidos(n, recargas)
             /\ pc' = "pronto"

(***************************************************************************)
(* Start-up: carregarDados and carregarJurisprudencia.                     *)
(***************************************************************************)
\* the index of the first store key on whose text JSON.parse throws, one
\* past the last key when there is none
primeiraCorrompida(ls) ==
    LET ks == {i \in 1..Len(ChavesStores) : ls[ChavesStores[i]] = Corrompido}
    IN  IF ks = {} THEN Len(ChavesStores) + 1
        ELSE CHOOSE k \in ks : \A j \in ks : k <= j

\* the i-th store after carregarDados: read when its text is there and no
\* earlier JSON.parse threw
storeLido(ls, i, atual) ==
    IF i < primeiraCorrompida(ls) /\ ls[ChavesStores[i]] # Nulo
    THEN JSONparse(ls[ChavesStores[i]])
    ELSE atual

\* a mutant of carregarJurisprudencia: a local copy JSON.parse throws on is
\* left in the storage
carregarJurisprudenciaSemRemover(infos, teses) ==
    LET dadosLocais == localStorage[ChaveDados]
    IN  IF dadosLocais # Nulo /\ JSONparseOk(dadosLocais)
        THEN /\ processarDadosCarregados(JSONparse(dadosLocais), infos, teses)
             /\ UNCHANGED localStorage
        ELSE /\ pc' = "buscando"
             /\ UNCHANGED <<localStorage, dadosTST, todosItens, itensFiltrados,
                            stats, idsAtribuidos>>

\* carregarJurisprudencia up to its first await, called with the uploaded
\* lists carregarDados has just read
carregarJurisprudencia(infos, teses) ==
    LET dadosLocais == localStorage[ChaveDados]
    IN  IF dadosLocais # Nulo /\ JSONparseOk(dadosLocais)
        THEN /\ processarDadosCarregados(JSONparse(dadosLocais), infos, teses)
             /\ UNCHANGED localStorage
        ELSE /\ localStorage' =
                    IF dadosLocais # Nulo THEN removeItem(localStorage, ChaveDados)
                    ELSE localStorage
             /\ pc' = "buscando"
             /\ UNCHANGED <<dadosTST, todosItens, itensFiltrados, stats,
                            idsAtribuidos>>

\* DOMContentLoaded: carregarDados; a SyntaxError of JSON.parse leaves it
\* through the listener, uncaught
CarregarDados ==
    /\ pc = "inicio"
    /\ favoritos' = storeLido(localStorage, 1, favoritos)
    /\ anotacoes' = storeLido(localStorage, 2, anotacoes)
    /\ tags' = storeLido(localStorage, 3, tags)
    /\ correlacoes' = storeLido(localStorage, 4, correlacoes)
    /\ informativos' = storeLido(localStorage, 5, informativos)
    /\ tesesVinculantes' = storeLido(localStorage, 6, tesesVinculantes)
    /\ IF primeiraCorrompida(localStorage) <= Len(ChavesStores)
       THEN /\ pc' = "falha"
            /\ UNCHANGED <<dadosTST, todosItens, itensFiltrados, stats,
                           idsAtribuidos, localStorage>>
       ELSE carregarJurisprudencia(informativos', tesesVinculantes')
    /\ UNCHANGED <<remoto, relogio, extraindo, lendo, passos, recargas,
                   alternados, statusFiltro, currentTab,
                   filtro>>

\* carregarJurisprudencia from the answer of fetch on: a rejected fetch, a
\* response that is not ok and a body response.json() rejects all end in
\* the catch
FetchResponde ==
    /\ pc = "buscando"
    /\ IF remoto.forma = "json"
       THEN processarDadosCarregados(remoto.corpo, informativos, tesesVinculantes)
       ELSE /\ pc' = "erro_carregar"
            /\ UNCHANGED <<dadosTST, todosItens, itensFiltrados, stats,
                           idsAtribuidos>>
    /\ UNCHANGED <<favoritos, anotacoes, tags, correlacoes, informativos,
                   tesesVinculantes, localStorage, remoto, relogio, extraindo,
                   lendo, passos, recargas,
                   alternados, statusFiltro, currentTab,
                   filtro>>


(***************************************************************************)
(* The user's operations.  Each runs after the page's DOMContentLoaded     *)
(* listener; the variables an operation never touches are left to the      *)
(* caller (outros), and passos to the specification.                       *)
(***************************************************************************)
carga ==
    <<dadosTST, remoto, pc, relogio, extraindo, lendo, recargas, idsAtribuidos,
      alternados, statusFiltro, currentTab,
                   filtro>>

\* toggleFavorito(id)
ToggleFavorito(id) ==
    /\ pc # "inicio"
    /\ favoritos' = IF includes(favoritos, id)
                    THEN spliceUm(favoritos, id)
                    ELSE Append(favoritos, id)
    /\ localStorage' = setItem(localStorage, "juristst_favoritos", favoritos')
    /\ alternados' = Append(alternados, id)
    /\ UNCHANGED <<todosItens, itensFiltrados, anotacoes, tags, correlacoes,
                   informativos, tesesVinculantes, stats, dadosTST, remoto, pc,
                   relogio, extraindo, lendo, recargas, idsAtribuidos,
                   statusFiltro, currentTab,
                   filtro>>

\* a mutant of SalvarAnotacao: the text is tested without trim
SalvarAnotacaoSemTrim(id, texto) ==
    /\ pc # "inicio"
    /\ anotacoes' = IF texto # <<>> THEN Put(anotacoes, id, texto)
                    ELSE Delete(anotacoes, id)
    /\ localStorage' = setItem(localStorage, "juristst_anotacoes", anotacoes')
    /\ UNCHANGED <<todosItens, itensFiltrados, favoritos, tags, correlacoes,
                   informativos, tesesVinculantes, stats, carga>>

\* salvarAnotacao(id, texto)
SalvarAnotacao(id, texto) ==
    /\ pc # "inicio"
    /\ anotacoes' = IF trim(texto) # <<>> THEN Put(anotacoes, id, texto)
                    ELSE Delete(anotacoes, id)
    /\ localStorage' = setItem(localStorage, "juristst_anotacoes", anotacoes')
    /\ UNCHANGED <<todosItens, itensFiltrados, favoritos, tags, correlacoes,
                   informativos, tesesVinculantes, stats, carga>>

\* adicionarTag(id, tag): the entry is created before the tag is looked at,
\* and written only when a tag is pushed
AdicionarTag(id, tag) ==
    /\ pc # "inicio"
    /\ LET t1 == IF id \in DOMAIN tags THEN tags ELSE Put(tags, id, <<>>)
       IN  IF ~includes(t1[id], tag) /\ trim(tag) # <<>>
           THEN /\ tags' = [t1 EXCEPT ![id] = Append(@, trim(tag))]
                /\ localStorage' = setItem(localStorage, "juristst_tags", tags')
           ELSE /\ tags' = t1
                /\ UNCHANGED localStorage
    /\ UNCHANGED <<todosItens, itensFiltrados, favoritos, anotacoes, correlacoes,
                   informativos, tesesVinculantes, stats, carga>>

\* removerTag(id, tag)
RemoverTag(id, tag) ==
    /\ pc # "inicio"
    /\ IF id \in DOMAIN tags
       THEN /\ tags' = LET l == filterDiferente(tags[id], tag)
                       IN  IF Len(l) = 0 THEN Delete(tags, id)
                           ELSE [tags EXCEPT ![id] = l]
            /\ localStorage' = setItem(localStorage, "juristst_tags", tags')
       ELSE UNCHANGED <<tags, localStorage>>
    /\ UNCHANGED <<todosItens, itensFiltrados, favoritos, anotacoes, correlacoes,
                   informativos, tesesVinculantes, stats, carga>>

\* adicionarCorrelacao(id1, id2)
AdicionarCorrelacao(id1, id2) ==
    /\ pc # "inicio"
    /\ correlacoes' = adicionarCorrelacaoMem(correlacoes, id1, id2)
    /\ localStorage' = setItem(localStorage, "juristst_correlacoes", correlacoes')
    /\ UNCHANGED <<todosItens, itensFiltrados, favoritos, anotacoes, tags,
                   informativos, tesesVinculantes, stats, carga>>

\* removerCorrelacao(id1, id2)
RemoverCorrelacao(id1, id2) ==
    /\ pc # "inicio"
    /\ correlacoes' = removerCorrelacaoMem(correlacoes, id1, id2)
    /\ localStorage' = setItem(localStorage, "juristst_correlacoes", correlacoes')
    /\ UNCHANGED <<todosItens, itensFiltrados, favoritos, anotacoes, tags,
                   informativos, tesesVinculantes, stats, carga>>

\* removerDocumento(id, tipo); confirmado is the answer to confirm()
RemoverDocumento(id, tipo, confirmado) ==
    /\ pc # "inicio"
    /\ IF ~confirmado
       THEN UNCHANGED <<informativos, tesesVinculantes, todosItens, favoritos,
                        anotacoes, tags, correlacoes, localStorage>>
       ELSE LET ls1 == IF tipo = "informativo"
                       THEN setItem(localStorage, "juristst_informativos", informativos')
                       ELSE IF tipo = "tese"
                       THEN setItem(localStorage, "juristst_teses", tesesVinculantes')
                       ELSE localStorage
                ls2 == IF includes(favoritos, id)
                       THEN setItem(ls1, "juristst_favoritos", favoritos')
                       ELSE ls1
                ls3 == IF id \in DOMAIN anotacoes /\ anotacoes[id] # <<>>
                       THEN setItem(ls2, "juristst_anotacoes", anotacoes')
                       ELSE ls2
                ls4 == IF id \in DOMAIN tags
                       THEN setItem(ls3, "juristst_tags", tags')
                       ELSE ls3
                ls5 == IF id \in DOMAIN correlacoes
                       THEN setItem(ls4, "juristst_correlacoes", correlacoes')
                       ELSE ls4
            IN  /\ informativos' =
                        IF tipo = "informativo"
                        THEN SelectSeq(informativos, LAMBDA info : info.id # id)
                        ELSE informativos
                /\ tesesVinculantes' =
                        IF tipo = "tese"
                        THEN SelectSeq(tesesVinculantes, LAMBDA tese : tese.id # id)
                        ELSE tesesVinculantes
                /\ todosItens' = SelectSeq(todosItens, LAMBDA item : item.id # id)
                /\ favoritos' = IF includes(favoritos, id)
                                THEN filterDiferente(favoritos, id)
                                ELSE favoritos
                /\ anotacoes' = IF id \in DOMAIN anotacoes /\ anotacoes[id] # <<>>
                                THEN Delete(anotacoes, id)
                                ELSE anotacoes
                /\ tags' = IF id \in DOMAIN tags THEN Delete(tags, id) ELSE tags
                /\ correlacoes' = IF id \in DOMAIN correlacoes
                                  THEN Delete(correlacoes, id)
                                  ELSE correlacoes
                /\ localStorage' = ls5
    /\ UNCHANGED <<itensFiltrados, stats, carga>>

(***************************************************************************)
(* Search: normalizarTexto, contemTermoNormalizado and realizarBusca.      *)
(* An accented letter is one character ("ú"); its canonical decomposition   *)
(* is the base letter followed by the combining mark, written "´".          *)
(***************************************************************************)
\* String.prototype.toLowerCase on one character
toLowerCaseChar(c) ==
    CASE c = "U" -> "u" [] c = "R" -> "r" [] c = "Ú" -> "ú" [] OTHER -> c

\* String.prototype.normalize('NFD')
RECURSIVE normalizeNFD(_)
normalizeNFD(s) ==
    IF s = <<>> THEN <<>>
    ELSE (IF Head(s) = "ú" THEN <<"u", "´">>
          ELSE IF Head(s) = "Ú" THEN <<"U", "´">>
          ELSE <<Head(s)>>) \o normalizeNFD(Tail(s))

\* the combining marks /[̀-ͯ]/ matches
Diacriticos == {"´"}

\* normalizarTexto(texto)
normalizarTexto(texto) ==
    IF texto = <<>> THEN <<>>
    ELSE trim(SelectSeq(normalizeNFD([i \in 1..Len(texto) |-> toLowerCaseChar(texto[i])]),
                        LAMBDA c : c \notin Diacriticos))

\* contemTermoNormalizado(textoCompleto, termoBusca)
contemTermoNormalizado(textoCompleto, termoBusca) ==
    IF textoCompleto = <<>> \/ termoBusca = <<>> THEN FALSE
    ELSE indexOf(normalizarTexto(textoCompleto), normalizarTexto(termoBusca)) # 0

\* String.prototype.split with a one-character separator
RECURSIVE split(_, _)
split(s, sep) ==
    LET k == indexOf(s, <<sep>>)
    IN  IF k = 0 THEN <<s>>
        ELSE <<SubSeq(s, 1, k - 1)>> \o split(SubSeq(s, k + 1, Len(s)), sep)

\* the values of the filter inputs: searchInput, filterTipo, filterOrgao,
\* filterNumero, filterTags
Filtro(busca, tipo, orgao, numero, tagsFiltro) ==
    [busca |-> busca, tipo |-> tipo, orgao |-> orgao, numero |-> numero,
     tags |-> tagsFiltro]

\* the inputs as limparFiltros leaves them
FiltroLimpo == Filtro(<<>>, "todos", <<"todos">>, <<>>, <<>>)

\* a mutant of passaStatus: the two status values are taken for each other
passaStatusTrocado(item, status) ==
    /\ ~(status = "canceladas" /\ item.cancelada)
    /\ ~(status = "vigentes" /\ ~item.cancelada)

\* the status lines of the filter callback
passaStatus(item, status) ==
    /\ ~(status = "vigentes" /\ item.cancelada)
    /\ ~(status = "canceladas" /\ ~item.cancelada)

\* tipoMap[item.tipo] || item.tipo
tipoDisplay(item) ==
    CASE item.tipo = "sumula" -> "Súmula"
      [] item.tipo = "oj" -> "OJ"
      [] item.tipo = "precedente" -> "Precedente Normativo"
      [] OTHER -> item.tipo

passaTipo(item, tipoFiltro) == tipoFiltro = "todos" \/ tipoDisplay(item) = tipoFiltro

\* the organ lines of the filter callback
passaOrgao(item, orgaoFiltro) ==
    (orgaoFiltro # <<"todos">> /\ item.tipo = "oj")
        => indexOf(toUpperCase(item.orgao), toUpperCase(orgaoFiltro)) # 0

passaNumero(item, numeroFiltro) == numeroFiltro = <<>> \/ item.numero = numeroFiltro

\* tags[item.id] || []
tagsDe(mapa, id) == IF id \in DOMAIN mapa THEN mapa[id] ELSE <<>>

\* a mutant of passaTags: one required tag found is enough
passaTagsAlguma(item, tagsFiltro, mapa) ==
    tagsFiltro = <<>> \/
        LET itemTags == tagsDe(mapa, item.id)
            filterTagsArray == split(tagsFiltro, ",")
        IN  \E k \in 1..Len(filterTagsArray) :
                \E j \in 1..Len(itemTags) :
                    contemTermoNormalizado(itemTags[j], trim(filterTagsArray[k]))

\* the tag lines of the filter callback
passaTags(item, tagsFiltro, mapa) ==
    tagsFiltro = <<>> \/
        LET itemTags == tagsDe(mapa, item.id)
            filterTagsArray == split(tagsFiltro, ",")
        IN  \A k \in 1..Len(filterTagsArray) :
                \E j \in 1..Len(itemTags) :
                    contemTermoNormalizado(itemTags[j], trim(filterTagsArray[k]))

\* `${item.numero}`: the text of a field the item lacks is 'undefined'
templateNumero(item) ==
    IF item.numero = <<>> THEN <<"u", "n", "d", "e", "f", "i", "n", "e", "d">>
    ELSE item.numero

\* textoComAnotacao: textoCompleto + ' ' + anotacao, a field the item lacks
\* being replaced by ''
textoComAnotacao(item, notas) ==
    templateNumero(item) \o <<" ">> \o item.titulo \o <<" ">> \o item.texto
        \o <<" ">> \o item.textoExtraido \o <<" ">>
        \o (IF item.id \in DOMAIN notas THEN notas[item.id] ELSE <<>>)

\* the free-text lines of the filter callback
passaBusca(item, searchTerm, notas) ==
    normalizarTexto(searchTerm) = <<>> \/
        LET termos == SelectSeq(split(searchTerm, " "), LAMBDA t : Len(t) > 2)
        IN  \A k \in 1..Len(termos) :
                contemTermoNormalizado(textoComAnotacao(item, notas), termos[k])

\* a mutant of itensParaFiltrar: the active tab is not looked at
itensParaFiltrarSemAba(itens, aba, searchTerm) ==
    IF normalizarTexto(searchTerm) # <<>> THEN itens
    ELSE filterJurisprudencia(itens)

\* a mutant of itensParaFiltrar: the candidates are taken last to first
itensParaFiltrarInvertido(itens, aba, searchTerm) ==
    LET candidatos == IF aba = "jurisprudencia" THEN filterJurisprudencia(itens)
                      ELSE IF normalizarTexto(searchTerm) # <<>> THEN itens
                      ELSE filterJurisprudencia(itens)
    IN  [i \in 1..Len(candidatos) |-> candidatos[Len(candidatos) + 1 - i]]

\* itensParaFiltrar
itensParaFiltrar(itens, aba, searchTerm) ==
    IF aba = "jurisprudencia" THEN filterJurisprudencia(itens)
    ELSE IF normalizarTexto(searchTerm) # <<>> THEN itens
    ELSE filterJurisprudencia(itens)

\* what realizarBusca assigns to itensFiltrados, the inputs being f and the
\* status filter being status
realizarBusca(f, status) ==
    SelectSeq(itensParaFiltrar(todosItens, currentTab, trim(f.busca)),
              LAMBDA item :
                  /\ passaStatus(item, status)
                  /\ passaTipo(item, f.tipo)
                  /\ passaOrgao(item, f.orgao)
                  /\ passaNumero(item, trim(f.numero))
                  /\ passaTags(item, trim(f.tags), tags)
                  /\ passaBusca(item, trim(f.busca), anotacoes))

\* the user edits the filter inputs
DigitarFiltros(f) ==
    /\ filtro' = f
    /\ UNCHANGED <<memoria, localStorage, remoto, pc, relogio, extraindo, lendo,
                   recargas, idsAtribuidos, alternados, statusFiltro, currentTab>>

\* realizarBusca()
RealizarBusca ==
    /\ UNCHANGED <<todosItens, favoritos, anotacoes, tags, correlacoes,
                   informativos, tesesVinculantes, stats, localStorage, carga>>
    /\ itensFiltrados' = realizarBusca(filtro, statusFiltro)

\* filtrarPorStatus(), the checked radio being status
FiltrarPorStatus(status) ==
    /\ UNCHANGED <<todosItens, favoritos, anotacoes, tags, correlacoes,
                   informativos, tesesVinculantes, stats, localStorage, dadosTST,
                   remoto, pc, relogio, extraindo, lendo, recargas, idsAtribuidos,
                   alternados, currentTab, filtro>>
    /\ statusFiltro' = status
    /\ itensFiltrados' = realizarBusca(filtro, status)

\* limparFiltros()
LimparFiltros ==
    /\ UNCHANGED <<todosItens, favoritos, anotacoes, tags, correlacoes,
                   informativos, tesesVinculantes, stats, localStorage, dadosTST,
                   remoto, pc, relogio, extraindo, lendo, recargas, idsAtribuidos,
                   alternados, currentTab>>
    /\ filtro' = FiltroLimpo
    /\ statusFiltro' = "todos"
    /\ itensFiltrados' = realizarBusca(FiltroLimpo, "todos")

\* switchTab(tabName, buttonElement)
SwitchTab(tabName) ==
    /\ currentTab' = tabName
    /\ UNCHANGED <<memoria, localStorage, remoto, pc, relogio, extraindo, lendo,
                   recargas, idsAtribuidos, alternados, statusFiltro, filtro>>

(***************************************************************************)
(* Uploads: processarArquivo, its text extraction and its FileReader.      *)
(***************************************************************************)
\* Date.now(): the model's clock counts from an epoch whose digits are
\* more than those of any list index
DateNow == 1000000 + relogio

\* processarArquivo(file, tipo) up to the call of extrairTextoPDF; ehPdf is
\* file.type.includes('pdf') with PDF.js loaded
ProcessarArquivo(tipo, ehPdf) ==
    /\ pc # "inicio"
    /\ extraindo[tipo] < MaxEnvios
    /\ extraindo' = IF ehPdf THEN [extraindo EXCEPT ![tipo] = @ + 1] ELSE extraindo
    /\ UNCHANGED <<memoria, localStorage, remoto, pc, relogio, lendo, recargas,
                   idsAtribuidos, alternados,
                   statusFiltro, currentTab,
                   filtro>>

\* extrairTextoPDF settles: with the text (readAsDataURL starts) or with an
\* error (the catch shows a toast)
ExtracaoTermina(tipo, ok) ==
    /\ extraindo[tipo] > 0
    /\ extraindo' = [extraindo EXCEPT ![tipo] = @ - 1]
    /\ lendo' = IF ok THEN [lendo EXCEPT ![tipo] = @ + 1] ELSE lendo
    /\ UNCHANGED <<memoria, localStorage, remoto, pc, relogio, recargas,
                   idsAtribuidos, alternados,
                   statusFiltro, currentTab,
                   filtro>>

\* novoItem of reader.onload; tipoTese is what obterTipoTese() answers
novoItem(tipo, tipoTese) ==
    ItemEnviado(IF tipo = "tese"
                THEN gerarIdConsistente("tese",
                        <<"u", "p", "l", "o", "a", "d", "_">> \o String(DateNow))
                ELSE gerarIdConsistente("informativo", String(DateNow)),
                <<"f">>,
                IF tipo = "tese" THEN tipoTese ELSE tipo,
                tipo,
                <<>>)

\* reader.onload, with storage writes that succeed
ReaderOnload(tipo, tipoTese) ==
    /\ lendo[tipo] > 0
    /\ lendo' = [lendo EXCEPT ![tipo] = @ - 1]
    /\ informativos' = IF tipo = "informativo"
                       THEN Append(informativos, novoItem(tipo, tipoTese))
                       ELSE informativos
    /\ tesesVinculantes' = IF tipo = "tese"
                           THEN Append(tesesVinculantes, novoItem(tipo, tipoTese))
                           ELSE tesesVinculantes
    /\ localStorage' = IF tipo = "informativo"
                       THEN setItem(localStorage, "juristst_informativos", informativos')
                       ELSE setItem(localStorage, "juristst_teses", tesesVinculantes')
    /\ todosItens' = Append(todosItens, novoItem(tipo, tipoTese))
    /\ UNCHANGED <<dadosTST, itensFiltrados, favoritos, anotacoes, tags,
                   correlacoes, stats, remoto, pc, relogio, extraindo, recargas,
                   idsAtribuidos, alternados,
                   statusFiltro, currentTab,
                   filtro>>

\* reader.onerror: a toast
ReaderOnerror(tipo) ==
    /\ lendo[tipo] > 0
    /\ lendo' = [lendo EXCEPT ![tipo] = @ - 1]
    /\ UNCHANGED <<memoria, localStorage, remoto, pc, relogio, extraindo,
                   recargas, idsAtribuidos, alternados,
                   statusFiltro, currentTab,
                   filtro>>

\* reader.onload when localStorage.setItem throws (QuotaExceededError): the
\* push before it has happened, the statements after it are not reached and
\* the exception leaves the callback
ReaderOnloadEscritaFalha(tipo, tipoTese) ==
    /\ lendo[tipo] > 0
    /\ lendo' = [lendo EXCEPT ![tipo] = @ - 1]
    /\ informativos' = IF tipo = "informativo"
                       THEN Append(informativos, novoItem(tipo, tipoTese))
                       ELSE informativos
    /\ tesesVinculantes' = IF tipo = "tese"
                           THEN Append(tesesVinculantes, novoItem(tipo, tipoTese))
                           ELSE tesesVinculantes
    /\ UNCHANGED <<dadosTST, todosItens, itensFiltrados, favoritos, anotacoes,
                   tags, correlacoes, stats, localStorage, remoto, pc, relogio,
                   extraindo, recargas, idsAtribuidos, alternados,
                   statusFiltro, currentTab,
                   filtro>>

\* removerDocumento(id, tipo), confirmed, when the first localStorage.setItem
\* it reaches throws: what precedes that call has happened, nothing after it
RemoverDocumentoEscritaFalha(id, tipo) ==
    /\ pc # "inicio"
    /\ IF tipo \in {"informativo", "tese"}
       THEN /\ informativos' =
                    IF tipo = "informativo"
                    THEN SelectSeq(informativos, LAMBDA info : info.id # id)
                    ELSE informativos
            /\ tesesVinculantes' =
                    IF tipo = "tese"
                    THEN SelectSeq(tesesVinculantes, LAMBDA tese : tese.id # id)
                    ELSE tesesVinculantes
            /\ UNCHANGED <<todosItens, favoritos, anotacoes, tags, correlacoes>>
       ELSE /\ todosItens' = SelectSeq(todosItens, LAMBDA item : item.id # id)
            /\ UNCHANGED <<informativos, tesesVinculantes>>
            /\ IF includes(favoritos, id)
               THEN /\ favoritos' = filterDiferente(favoritos, id)
                    /\ UNCHANGED <<anotacoes, tags, correlacoes>>
               ELSE IF id \in DOMAIN anotacoes /\ anotacoes[id] # <<>>
               THEN /\ anotacoes' = Delete(anotacoes, id)
                    /\ UNCHANGED <<favoritos, tags, correlacoes>>
               ELSE IF id \in DOMAIN tags
               THEN /\ tags' = Delete(tags, id)
                    /\ UNCHANGED <<favoritos, anotacoes, correlacoes>>
               ELSE /\ id \in DOMAIN correlacoes
                    /\ correlacoes' = Delete(correlacoes, id)
                    /\ UNCHANGED <<favoritos, anotacoes, tags>>
    /\ UNCHANGED <<itensFiltrados, stats, localStorage, carga>>

\* time passes
Tique ==
    /\ relogio < MaxRelogio
    /\ relogio' = relogio + 1
    /\ UNCHANGED <<memoria, localStorage, remoto, pc, extraindo, lendo, recargas,
                   idsAtribuidos, alternados,
                   statusFiltro, currentTab,
                   filtro>>

\* the page is loaded again: the script starts over on the same storage and
\* the callbacks of the page before are gone
Recarregar ==
    /\ pc # "inicio"
    /\ recargas < MaxRecargas
    /\ recargas' = recargas + 1
    /\ dadosTST' = DadosIniciais
    /\ todosItens' = <<>>
    /\ itensFiltrados' = <<>>
    /\ favoritos' = <<>>
    /\ anotacoes' = MapaVazio
    /\ tags' = MapaVazio
    /\ correlacoes' = MapaVazio
    /\ informativos' = <<>>
    /\ tesesVinculantes' = <<>>
    /\ stats' = [total |-> 0, vigentes |-> 0, canceladas |-> 0]
    /\ pc' = "inicio"
    /\ extraindo' = [t \in DOMAIN extraindo |-> 0]
    /\ lendo' = [t \in DOMAIN lendo |-> 0]
    /\ statusFiltro' = "todos"
    /\ currentTab' = "jurisprudencia"
    /\ filtro' = FiltroLimpo
    /\ UNCHANGED <<localStorage, remoto, relogio, idsAtribuidos, alternados>>

(***************************************************************************)
(* Initial states.                                                         *)
(***************************************************************************)
\* the module-level initial values (lines 73-99)
InitMemoria ==
    /\ dadosTST = DadosIniciais
    /\ todosItens = <<>>
    /\ itensFiltrados = <<>>
    /\ favoritos = <<>>
    /\ anotacoes = MapaVazio
    /\ tags = MapaVazio
    /\ correlacoes = MapaVazio
    /\ informativos = <<>>
    /\ tesesVinculantes = <<>>
    /\ stats = [total |-> 0, vigentes |-> 0, canceladas |-> 0]
    /\ statusFiltro = "todos"
    /\ currentTab = "jurisprudencia"
    /\ filtro = FiltroLimpo

TiposEnvio == {"informativo", "tese"}

\* no upload in flight, nothing done yet
InitContadores ==
    /\ relogio = 1
    /\ extraindo = [t \in TiposEnvio |-> 0]
    /\ lendo = [t \in TiposEnvio |-> 0]
    /\ passos = 0
    /\ recargas = 0
    /\ idsAtribuidos = {}
    /\ alternados = <<>>

\* a page that has not yet run its DOMContentLoaded listener
InitPagina == pc = "inicio" /\ InitContadores

StorageVazio == [k \in Chaves |-> Nulo]

\* the sequences over S of length at most n
Listas(S, n) == UNION {[1..k -> S] : k \in 0..n}

(***************************************************************************)
(* The inputs of the load.                                                 *)
(***************************************************************************)
ItensBrutos ==
    {ItemBruto(<<"1">>, FALSE), ItemBruto(<<"2", "-", "A">>, TRUE)}

ListasBrutas == Listas(ItensBrutos, MaxLista)

\* the shapes of sumulas and of precedentes_normativos
ColecoesLista == {Ausente, Outro} \cup {Lista(l) : l \in ListasBrutas}

Orgaos == <<(<<"s", "b", "d", "i", "1">>), (<<"s", "d", "c", "_", "t">>)>>

ValoresGrupo == {Outro} \cup {Lista(l) : l \in ListasBrutas}

\* the organ groups: each organ absent or present with a value
Grupos ==
    {<<>>}
    \cup {<<[orgao |-> Orgaos[i], valor |-> v]>> : i \in 1..2, v \in ValoresGrupo}
    \cup {<<[orgao |-> Orgaos[1], valor |-> v], [orgao |-> Orgaos[2], valor |-> w]>> :
            v \in ValoresGrupo, w \in ValoresGrupo}

\* the shapes of ojs
ColecoesOjs ==
    {Ausente, Outro, Lista(<<ItemBruto(<<"1">>, FALSE)>>)}
    \cup {Mapa(g) : g \in Grupos}

\* a JSON array as the payload: an object none of whose expected keys is there
PayloadArray == [Objeto(Ausente, Ausente, Ausente) EXCEPT !.classe = "array"]

Payloads ==
    {Escalar, PayloadArray}
    \cup {Objeto(s, o, pn) : s \in ColecoesLista, o \in ColecoesOjs, pn \in ColecoesLista}

PayloadsBase ==
    {Objeto(Lista(<<ItemBruto(<<"1">>, FALSE), ItemBruto(<<"2", "-", "A">>, TRUE)>>),
            Mapa(<<[orgao |-> Orgaos[1],
                    valor |-> Lista(<<ItemBruto(<<"1">>, FALSE)>>)]>>),
            Lista(<<ItemBruto(<<"1">>, FALSE)>>)),
     Objeto(Ausente, Ausente, Ausente)}

\* the answers of the server that are no dataset
Falhas == {[forma |-> "rede"], [forma |-> "http"], [forma |-> "invalido"]}

RespostaJson(p) == [forma |-> "json", corpo |-> p]

\* <<the local copy, the server's answer>>
Fontes(P) ==
    {<<JSONstringify(p), [forma |-> "rede"]>> : p \in P}
    \cup {<<l, RespostaJson(p)>> : l \in {Nulo, Corrompido}, p \in P}
    \cup {<<l, f>> : l \in {Nulo, Corrompido}, f \in Falhas}

BoletinsGuardados ==
    {ItemEnviado(gerarIdConsistente("informativo", String(1000001)), <<"f">>,
                 "informativo", "informativo", <<>>),
     ItemEnviado(<<>>, <<"g">>, "informativo", "informativo", <<>>)}

TesesGuardadas ==
    {ItemEnviado(gerarIdConsistente("tese", <<"u", "p", "l", "o", "a", "d", "_">>
                                             \o String(1000001)),
                 <<"f">>, "irr", "tese", <<>>),
     ItemEnviado(<<>>, <<"g">>, "", "tese", <<"7">>)}

ListasGuardadas(S) == {Nulo} \cup {JSONstringify(l) : l \in Listas(S, MaxLista)}

\* <<the stored bulletins, the stored theses>>
Envios == ListasGuardadas(BoletinsGuardados) \X ListasGuardadas(TesesGuardadas)

EnviosBase ==
    {<<Nulo, Nulo>>,
     <<JSONstringify(<<ItemEnviado(<<>>, <<"g">>, "informativo", "informativo", <<>>),
                       ItemEnviado(gerarIdConsistente("informativo", String(1000001)),
                                   <<"f">>, "informativo", "informativo", <<>>)>>),
       JSONstringify(<<ItemEnviado(<<>>, <<"g">>, "", "tese", <<"7">>)>>)>>}

\* the durable storage with a local copy and the two upload lists
StorageCom(local, envio) ==
    [StorageVazio EXCEPT ![ChaveDados] = local,
                         !["juristst_informativos"] = envio[1],
                         !["juristst_teses"] = envio[2]]

\* The load alone: every payload with a few stored uploads, and every stored
\* upload list with a few payloads.
InitCarga ==
    /\ InitMemoria
    /\ InitPagina
    /\ \/ \E f \in Fontes(Payloads), e \in EnviosBase :
            localStorage = StorageCom(f[1], e) /\ remoto = f[2]
       \/ \E f \in Fontes(PayloadsBase), e \in Envios :
            localStorage = StorageCom(f[1], e) /\ remoto = f[2]

NextCarga == CarregarDados \/ FetchResponde

SpecCarga == InitCarga /\ [][NextCarga]_vars


(***************************************************************************)
(* The correlation store alone, from the empty store of a started page.    *)
(***************************************************************************)
\* the items the user acts on: a súmula, an uploaded bulletin, an uploaded thesis
IdsAlvo ==
    {gerarIdConsistente("sumula", <<"1">>),
     gerarIdConsistente("informativo", String(1000001)),
     gerarIdConsistente("tese", <<"u", "p", "l", "o", "a", "d", "_">> \o String(1000001))}

\* carregarDados has run on an empty storage and the fetch is outstanding
InitCorrelacoes ==
    /\ InitMemoria
    /\ InitContadores
    /\ pc = "buscando"
    /\ localStorage = StorageVazio
    /\ remoto = [forma |-> "rede"]

\* an operation outside the count of operations
Livre(A) == A /\ UNCHANGED passos

\* an operation that counts against the bound on operations
Contado(A) == A /\ passos < MaxPassos /\ passos' = passos + 1

NextCorrelacoes ==
    \/ \E id1 \in IdsAlvo, id2 \in IdsAlvo : Livre(AdicionarCorrelacao(id1, id2))
    \/ \E id1 \in IdsAlvo, id2 \in IdsAlvo : Livre(RemoverCorrelacao(id1, id2))

SpecCorrelacoes == InitCorrelacoes /\ [][NextCorrelacoes]_vars


(***************************************************************************)
(* One session of the page, from an empty storage: the load, the user's    *)
(* operations, uploads and reloads.                                        *)
(***************************************************************************)
\* the annotation texts and the tags the user types
Textos == {<<>>, <<" ">>, <<"n">>}

TagsDigitadas == {<<"u">>, <<" ", "u">>, <<" ">>}

TiposTese == {"irr", "irdr", "iac"}

Init ==
    /\ InitMemoria
    /\ InitPagina
    /\ localStorage = StorageVazio
    /\ remoto \in {[forma |-> "rede"]} \cup {RespostaJson(p) : p \in PayloadsBase}

Next ==
    \/ Livre(CarregarDados)
    \/ Livre(FetchResponde)
    \/ Livre(Tique)
    \/ Livre(Recarregar)
    \/ \E id \in IdsAlvo : Contado(ToggleFavorito(id))
    \/ \E id \in IdsAlvo, texto \in Textos : Contado(SalvarAnotacao(id, texto))
    \/ \E id \in IdsAlvo, tag \in TagsDigitadas : Contado(AdicionarTag(id, tag))
    \/ \E id \in IdsAlvo, tag \in TagsDigitadas : Contado(RemoverTag(id, tag))
    \/ \E id1 \in IdsAlvo, id2 \in IdsAlvo : Contado(AdicionarCorrelacao(id1, id2))
    \/ \E id1 \in IdsAlvo, id2 \in IdsAlvo : Contado(RemoverCorrelacao(id1, id2))
    \/ \E id \in IdsAlvo, tipo \in TiposEnvio, confirmado \in BOOLEAN :
            Contado(RemoverDocumento(id, tipo, confirmado))
    \/ \E tipo \in TiposEnvio, ehPdf \in BOOLEAN : Contado(ProcessarArquivo(tipo, ehPdf))
    \/ \E tipo \in TiposEnvio, ok \in BOOLEAN : Livre(ExtracaoTermina(tipo, ok))
    \/ \E tipo \in TiposEnvio, tipoTese \in TiposTese : Livre(ReaderOnload(tipo, tipoTese))
    \/ \E tipo \in TiposEnvio : Livre(ReaderOnerror(tipo))

Spec == Init /\ [][Next]_vars


(***************************************************************************)
(* Start-up on a storage any of whose store keys may hold corrupted text.  *)
(***************************************************************************)
\* what each store key holds when its text is sound
ValorGuardado ==
    LET a == gerarIdConsistente("sumula", <<"1">>)
        b == gerarIdConsistente("informativo", String(1000001))
    IN  [k \in Chaves |->
            CASE k = "juristst_favoritos" -> <<a>>
              [] k = "juristst_anotacoes" -> Put(MapaVazio, a, <<"n">>)
              [] k = "juristst_tags" -> Put(MapaVazio, a, <<(<<"u">>)>>)
              [] k = "juristst_correlacoes" -> Put(Put(MapaVazio, a, <<b>>), b, <<a>>)
              [] k = "juristst_informativos" ->
                    <<ItemEnviado(b, <<"f">>, "informativo", "informativo", <<>>)>>
              [] k = "juristst_teses" ->
                    <<ItemEnviado(<<>>, <<"g">>, "", "tese", <<"7">>)>>
              [] OTHER -> CHOOSE p \in PayloadsBase : p.sumulas # Ausente]

\* every key absent, corrupted or sound, independently
InitArranque ==
    /\ InitMemoria
    /\ InitPagina
    /\ \E f \in [Chaves -> {"null", "corrompido", "json"}] :
          localStorage =
              [k \in Chaves |->
                  CASE f[k] = "null" -> Nulo
                    [] f[k] = "corrompido" -> Corrompido
                    [] OTHER -> JSONstringify(ValorGuardado[k])]
    /\ remoto \in {[forma |-> "rede"]} \cup {RespostaJson(p) : p \in PayloadsBase}

NextArranque == Livre(CarregarDados) \/ Livre(FetchResponde)

SpecArranque == InitArranque /\ [][NextArranque]_vars

(***************************************************************************)
(* Loads of a dataset that changes between them.                           *)
(***************************************************************************)
\* well-formed datasets: súmulas, one organ group of OJs, no precedentes
PayloadsRecarga ==
    {Objeto(Lista(l),
            Mapa(<<[orgao |-> Orgaos[1], valor |-> Lista(m)]>>),
            Lista(<<>>)) : l \in ListasBrutas, m \in Listas(ItensBrutos, 1)}

\* the file on the server is replaced
PublicarDataset(p) ==
    /\ pc # "inicio"
    /\ recargas < MaxRecargas
    /\ remoto # RespostaJson(p)
    /\ remoto' = RespostaJson(p)
    /\ UNCHANGED <<memoria, localStorage, pc, relogio, extraindo, lendo, recargas,
                   idsAtribuidos, alternados,
                   statusFiltro, currentTab,
                   filtro>>

InitRecarga ==
    /\ InitMemoria
    /\ InitPagina
    /\ localStorage = StorageVazio
    /\ remoto \in {[forma |-> "rede"]} \cup {RespostaJson(p) : p \in PayloadsRecarga}

NextRecarga ==
    \/ Livre(CarregarDados)
    \/ Livre(FetchResponde)
    \/ Livre(Recarregar)
    \/ \E p \in PayloadsRecarga : Livre(PublicarDataset(p))

SpecRecarga == InitRecarga /\ [][NextRecarga]_vars


(***************************************************************************)
(* Uploads and removals on a storage whose writes may throw.               *)
(***************************************************************************)
\* carregarDados has run on an empty storage and the fetch is outstanding
InitEscrita ==
    /\ InitMemoria
    /\ InitContadores
    /\ pc = "buscando"
    /\ localStorage = StorageVazio
    /\ remoto = [forma |-> "rede"]

\* the tipo arguments of removerDocumento: the two the page passes and another
TiposRemocao == TiposEnvio \cup {"outro"}

NextEscrita ==
    \/ Livre(Tique)
    \/ \E tipo \in TiposEnvio : Contado(ProcessarArquivo(tipo, TRUE))
    \/ \E tipo \in TiposEnvio, ok \in BOOLEAN : Livre(ExtracaoTermina(tipo, ok))
    \/ \E tipo \in TiposEnvio : Livre(ReaderOnload(tipo, "irr"))
    \/ \E tipo \in TiposEnvio : Livre(ReaderOnloadEscritaFalha(tipo, "irr"))
    \/ \E id \in IdsAlvo : Contado(ToggleFavorito(id))
    \/ \E id \in IdsAlvo : Contado(AdicionarTag(id, <<"u">>))
    \/ \E id \in IdsAlvo, tipo \in TiposRemocao :
            Contado(RemoverDocumento(id, tipo, TRUE))
    \/ \E id \in IdsAlvo, tipo \in TiposRemocao :
            Contado(RemoverDocumentoEscritaFalha(id, tipo))

SpecEscrita == InitEscrita /\ [][NextEscrita]_vars


(***************************************************************************)
(* The annotation store alone, from the empty store of a started page.     *)
(***************************************************************************)
\* the texts of the textarea: empty, blank, and texts with and without
\* white space around them
TextosAnotacao ==
    Textos \cup {<<" ", " ">>, <<" ", "n">>, <<"n", " ">>, <<"n", "n">>}

NextAnotacoes ==
    \E id \in IdsAlvo, texto \in TextosAnotacao : Livre(SalvarAnotacao(id, texto))

SpecAnotacoes == InitEscrita /\ [][NextAnotacoes]_vars


(***************************************************************************)
(* The tag store alone, from the empty store of a started page.            *)
(***************************************************************************)
\* the tags the user types and removes
TagsDeTeste == TagsDigitadas \cup {<<"n">>}

NextTags ==
    \/ \E id \in IdsAlvo, tag \in TagsDeTeste : Contado(AdicionarTag(id, tag))
    \/ \E id \in IdsAlvo, tag \in TagsDeTeste : Contado(RemoverTag(id, tag))

SpecTags == InitEscrita /\ [][NextTags]_vars


(***************************************************************************)
(* The favourites alone, from the empty list of a started page.            *)
(***************************************************************************)
\* calls of toggleFavorito in one behaviour of SpecFavoritos
MaxAlternancias == 5

NextFavoritos ==
    \E id \in IdsAlvo :
        Livre(ToggleFavorito(id)) /\ Len(alternados) < MaxAlternancias

SpecFavoritos == InitEscrita /\ [][NextFavoritos]_vars


(***************************************************************************)
(* The search: the dataset and a stored bulletin are loaded, the user tags *)
(* a súmula, sets the filters, searches and removes the bulletin.          *)
(***************************************************************************)
\* a vigente súmula with a title and a text, a cancelled súmula, an OJ and a
\* precedente
PayloadBusca ==
    Objeto(Lista(<<ComTexto(ItemBruto(<<"1">>, FALSE),
                            <<"d", "a", "n", "o">>, <<"Ú", "r", "a">>, <<>>),
                   ItemBruto(<<"2", "-", "A">>, TRUE)>>),
           Mapa(<<[orgao |-> Orgaos[1],
                   valor |-> Lista(<<ItemBruto(<<"1">>, FALSE)>>)]>>),
           Lista(<<ItemBruto(<<"1">>, FALSE)>>))

\* an uploaded bulletin as reader.onload stored it: texto and textoExtraido
\* hold the text of the PDF, there is no numero
BoletimBusca ==
    ComTexto(ItemEnviado(gerarIdConsistente("informativo", String(1000001)),
                         <<"f">>, "informativo", "informativo", <<>>),
             <<>>, <<"Ú", "r", "a">>, <<"Ú", "r", "a">>)

InitBusca ==
    /\ InitMemoria
    /\ InitPagina
    /\ localStorage = StorageCom(Nulo, <<JSONstringify(<<BoletimBusca>>), Nulo>>)
    /\ remoto = RespostaJson(PayloadBusca)

IdsBusca == {gerarIdConsistente("sumula", <<"1">>)}

\* the tags the user gives: 'ur' and 'Ú'
TagsBusca == {<<"u", "r">>, <<"Ú">>}

\* the tag filters the user types: none, 'u', 'ú', 'R', 'u, r' and 'u,'
TagsFiltro ==
    {<<>>, <<"u">>, <<"ú">>, <<"R">>, <<"u", ",", " ", "r">>, <<"u", ",">>}

\* the free texts the user types: none, '2-A', 'ura', 'dano ura', 'ur dano',
\* 'und' and 'dano<tab>ura'
TextosBusca ==
    {<<>>, <<"2", "-", "A">>, <<"u", "r", "a">>,
     <<"d", "a", "n", "o", " ", "u", "r", "a">>,
     <<"u", "r", " ", "d", "a", "n", "o">>,
     <<"u", "n", "d">>,
     <<"d", "a", "n", "o", "\t", "u", "r", "a">>}

\* the values of the inputs: a tag filter alone, a free text alone, a type,
\* an organ or a number alone, and a free text with a type
FiltrosBusca ==
    {Filtro(<<>>, "todos", <<"todos">>, <<>>, tagsFiltro) : tagsFiltro \in TagsFiltro}
    \cup {Filtro(busca, "todos", <<"todos">>, <<>>, <<>>) : busca \in TextosBusca}
    \cup {Filtro(<<>>, "Súmula", <<"todos">>, <<>>, <<>>),
          Filtro(<<>>, "todos", <<"s", "d", "c">>, <<>>, <<>>),
          Filtro(<<>>, "todos", <<"todos">>, <<"1">>, <<>>),
          Filtro(<<"2", "-", "A">>, "Súmula", <<"todos">>, <<>>, <<>>)}

\* the values of the status radios
ValoresStatus == {"todos", "vigentes", "canceladas"}

Abas == {"jurisprudencia", "informativos"}

NextBusca ==
    \/ Livre(CarregarDados)
    \/ Livre(FetchResponde)
    \/ \E id \in IdsBusca, tag \in TagsBusca : Livre(AdicionarTag(id, tag))
    \/ \E f \in FiltrosBusca : Livre(DigitarFiltros(f))
    \/ Livre(RealizarBusca)
    \/ \E status \in ValoresStatus : Livre(FiltrarPorStatus(status))
    \/ Livre(LimparFiltros)
    \/ \E aba \in Abas : Livre(SwitchTab(aba))
    \/ Livre(RemoverDocumento(BoletimBusca.id, "informativo", TRUE))

SpecBusca == InitBusca /\ [][NextBusca]_vars


(***************************************************************************)
(* Properties.                                                             *)
(***************************************************************************)
\* b is in a's correlation list
Correlacionado(a, b) == a \in DOMAIN correlacoes /\ includes(correlacoes[a], b)

\* the ids the stores and the catalogue mention
IdsPresentes ==
    IdsAlvo \cup DOMAIN correlacoes
        \cup UNION {{correlacoes[a][i] : i \in 1..Len(correlacoes[a])} :
                        a \in DOMAIN correlacoes}

\* C1: from the empty store, every step of adicionarCorrelacao and
\* removerCorrelacao leaves the correlation graph symmetric (b is in a's list
\* iff a is in b's), and after removerCorrelacao(a, b) neither a's list holds
\* b nor b's list holds a.
T_C1_CorrelacoesSimetricas ==
    [][/\ \A a \in IdsPresentes', b \in IdsPresentes' :
              Correlacionado(a, b)' <=> Correlacionado(b, a)'
       /\ \A a \in IdsAlvo, b \in IdsAlvo :
              RemoverCorrelacao(a, b) =>
                  ~Correlacionado(a, b)' /\ ~Correlacionado(b, a)']_vars

\* C1's case: an edge between two distinct items stands in both lists, each
\* of which holds a second edge too, and is written through
W_C1_ArestaNosDoisLados ==
    \E a \in IdsAlvo, b \in IdsAlvo :
        /\ a # b
        /\ Correlacionado(a, b) /\ Correlacionado(b, a)
        /\ Len(correlacoes[a]) = 2 /\ Len(correlacoes[b]) = 2
        /\ localStorage["juristst_correlacoes"] = JSONstringify(correlacoes)

\* x is mentioned by the catalogue or by a store
Referenciado(x) ==
    \/ \E i \in 1..Len(todosItens) : todosItens[i].id = x
    \/ includes(favoritos, x)
    \/ x \in DOMAIN anotacoes
    \/ x \in DOMAIN tags
    \/ x \in DOMAIN correlacoes
    \/ \E a \in DOMAIN correlacoes : includes(correlacoes[a], x)

\* C2: after a confirmed removerDocumento(x, tipo), x is in no item of
\* todosItens, not in favoritos, no key of anotacoes, tags or correlacoes and
\* in no other item's correlation list.
CE_C2_RemocaoEmCascata ==
    [][\A x \in IdsAlvo, tipo \in TiposEnvio :
            RemoverDocumento(x, tipo, TRUE) => ~Referenciado(x)']_vars

\* the payload the merge has run on: the local copy when there is one that
\* parses, the server's answer otherwise
payloadCarregado ==
    IF localStorage[ChaveDados].forma = "json"
    THEN JSONparse(localStorage[ChaveDados])
    ELSE remoto.corpo

\* an object with sumulas: [], ojs: {[organ]: []}, precedentes_normativos: []
BemFormado(p) ==
    /\ p.classe = "objeto"
    /\ p.sumulas.forma = "lista"
    /\ p.ojs.forma = "mapa"
    /\ \A g \in 1..Len(p.ojs.grupos) : p.ojs.grupos[g].valor.forma = "lista"
    /\ p.precedentes_normativos.forma = "lista"

SemRepetidos(lista) ==
    \A i \in 1..Len(lista), j \in 1..Len(lista) : i # j => lista[i] # lista[j]

\* no list of the payload holds a numero twice
NumerosDistintos(p) ==
    LET numeros(lista) == [i \in 1..Len(lista) |-> lista[i].numero]
    IN  /\ SemRepetidos(numeros(p.sumulas.itens))
        /\ \A g \in 1..Len(p.ojs.grupos) :
                SemRepetidos(numeros(p.ojs.grupos[g].valor.itens))
        /\ SemRepetidos(numeros(p.precedentes_normativos.itens))

\* C3: after processarDadosCarregados has merged a well-formed payload (no
\* list of which repeats a numero) with the stored bulletins and theses (no
\* list of which repeats a document), every two distinct items of todosItens
\* have different ids.
CE_C3_IdsUnicos ==
    (/\ pc = "pronto"
     /\ BemFormado(payloadCarregado)
     /\ NumerosDistintos(payloadCarregado)
     /\ SemRepetidos(informativos)
     /\ SemRepetidos(tesesVinculantes))
    => \A i \in 1..Len(todosItens), j \in 1..Len(todosItens) :
            i # j => todosItens[i].id # todosItens[j].id

\* C4: over all the merges of a behaviour, page reloads included, a case-law
\* record of the same collection and the same numero receives the same id,
\* whatever the load and whatever its position in the dataset.
T_C4_IdentidadeEstavel ==
    \A t \in idsAtribuidos, u \in idsAtribuidos :
        (t[2] = u[2] /\ t[4] = u[4]) => t[5] = u[5]

\* C4's case: a record merged before the reload at one position is merged
\* after it at another, and the catalogue holds it under the id it had
W_C4_MesmoRegistroDuasCargas ==
    /\ pc = "pronto"
    /\ recargas = 1
    /\ \E t \in idsAtribuidos, u \in idsAtribuidos :
            /\ t[1] = 0 /\ u[1] = 1
            /\ t[2] = u[2] /\ t[4] = u[4]
            /\ t[3] # u[3]
            /\ \E i \in 1..Len(todosItens) :
                    todosItens[i].id = t[5] /\ todosItens[i].numero = t[4]

\* the number of case-law items at the head of todosItens after a merge
nJurisprudencia == Len(todosItens) - Len(informativos) - Len(tesesVinculantes)

\* C5: after a merge, the item made of a stored bulletin or thesis that
\* carries an id has exactly that id; the item made of one that carries none
\* has the id gerarIdConsistente computes (from the bulletin's index, from
\* the thesis' tema).
T_C5_IdPersistidoMantido ==
    pc = "pronto" =>
        /\ \A i \in 1..Len(informativos) :
              todosItens[nJurisprudencia + i].id =
                  IF informativos[i].id # <<>> THEN informativos[i].id
                  ELSE gerarIdConsistente("informativo", String(i - 1))
        /\ \A i \in 1..Len(tesesVinculantes) :
              todosItens[nJurisprudencia + Len(informativos) + i].id =
                  IF tesesVinculantes[i].id # <<>> THEN tesesVinculantes[i].id
                  ELSE gerarIdConsistente("tese", tesesVinculantes[i].tema)

\* C5's case: a merge of a bulletin with a persisted id that is not the one
\* its index gives, of a bulletin with none and of a thesis with none
W_C5_ComESemId ==
    /\ pc = "pronto"
    /\ \E i \in 1..Len(informativos) :
            /\ informativos[i].id # <<>>
            /\ informativos[i].id # gerarIdConsistente("informativo", String(i - 1))
    /\ \E i \in 1..Len(informativos) : informativos[i].id = <<>>
    /\ \E i \in 1..Len(tesesVinculantes) : tesesVinculantes[i].id = <<>>

\* the items of the organ groups whose value is a list, group after group
RECURSIVE Achatar(_)
Achatar(grupos) ==
    IF grupos = <<>> THEN <<>>
    ELSE (IF Head(grupos).valor.forma = "lista" THEN Head(grupos).valor.itens
          ELSE <<>>) \o Achatar(Tail(grupos))

\* what identifies the items of a list of the dataset, in order
Marcar(lista, marca) ==
    [i \in 1..Len(lista) |-> <<marca, lista[i].numero, lista[i].cancelada>>]

\* what identifies the stored documents of a list, in order
MarcarEnvios(lista, marca) ==
    [i \in 1..Len(lista) |-> <<marca, lista[i].nome, FALSE>>]

\* what identifies the items of todosItens, in order
OrdemObtida ==
    [i \in 1..Len(todosItens) |->
        LET item == todosItens[i]
        IN  IF item.source = "jurisprudencia"
            THEN <<item.tipo, item.numero, item.cancelada>>
            ELSE <<item.source, item.nome, FALSE>>]

\* C6: for a well-formed payload the merged collection has as many items as
\* sumulas, the organ groups of ojs, precedentes_normativos, the stored
\* bulletins and the stored theses together, in the order: the súmulas, the
\* OJs group after group, the precedentes, the bulletins, the theses, each
\* in its source order.
T_C6_ComprimentoEOrdem ==
    (pc = "pronto" /\ BemFormado(payloadCarregado)) =>
        LET p == payloadCarregado
        IN  /\ Len(todosItens) =
                    Len(p.sumulas.itens) + Len(Achatar(p.ojs.grupos))
                        + Len(p.precedentes_normativos.itens)
                        + Len(informativos) + Len(tesesVinculantes)
            /\ OrdemObtida =
                    Marcar(p.sumulas.itens, "sumula")
                        \o Marcar(Achatar(p.ojs.grupos), "oj")
                        \o Marcar(p.precedentes_normativos.itens, "precedente")
                        \o MarcarEnvios(informativos, "informativo")
                        \o MarcarEnvios(tesesVinculantes, "tese")

\* C6's case: a merge of súmulas, two organ groups of different OJs,
\* precedentes, bulletins and a thesis
W_C6_TodasAsCategorias ==
    /\ pc = "pronto"
    /\ BemFormado(payloadCarregado)
    /\ Len(payloadCarregado.sumulas.itens) = 2
    /\ Len(payloadCarregado.ojs.grupos) = 2
    /\ payloadCarregado.ojs.grupos[1].valor.itens # <<>>
    /\ payloadCarregado.ojs.grupos[2].valor.itens # <<>>
    /\ payloadCarregado.ojs.grupos[1].valor.itens
            # payloadCarregado.ojs.grupos[2].valor.itens
    /\ payloadCarregado.precedentes_normativos.itens # <<>>
    /\ Len(informativos) = 2
    /\ Len(tesesVinculantes) = 1

\* the memory a load can write the catalogue to
catalogo == <<dadosTST, todosItens, itensFiltrados, stats>>

\* C7: a load that ends in an error (the payload is no object, the fetch
\* fails) leaves the in-memory state, todosItens included, as it was before
\* the load attempt.
CE_C7_TudoOuNada ==
    [][(pc' \in {"erro_processar", "erro_carregar"} /\ pc' # pc)
            => catalogo' = catalogo]_vars

\* the items of todosItens of one kind, in order
DeTipo(marca) == SelectSeq(OrdemObtida, LAMBDA t : t[1] = marca)

\* the load is over
CargaTerminada == pc \in {"pronto", "erro_processar", "erro_carregar"}

\* the payload the load has to merge is an object
PayloadEhObjeto ==
    /\ CargaTerminada
    /\ localStorage[ChaveDados].forma = "json" \/ remoto.forma = "json"
    /\ payloadCarregado.classe # "escalar"

\* C8: for a payload that is an object, the merge completes without error;
\* a collection (sumulas, ojs, precedentes_normativos) that is missing or of
\* another shape, and an organ group whose value is no list, contribute no
\* item, and every other collection and the stored documents are merged.
T_C8_PadroesDefensivos ==
    PayloadEhObjeto =>
        LET p == payloadCarregado
        IN  /\ pc = "pronto"
            /\ DeTipo("sumula") =
                    IF p.sumulas.forma = "lista"
                    THEN Marcar(p.sumulas.itens, "sumula") ELSE <<>>
            /\ DeTipo("oj") =
                    IF p.ojs.forma = "mapa"
                    THEN Marcar(Achatar(p.ojs.grupos), "oj") ELSE <<>>
            /\ DeTipo("precedente") =
                    IF p.precedentes_normativos.forma = "lista"
                    THEN Marcar(p.precedentes_normativos.itens, "precedente")
                    ELSE <<>>
            /\ DeTipo("informativo") = MarcarEnvios(informativos, "informativo")
            /\ DeTipo("tese") = MarcarEnvios(tesesVinculantes, "tese")

\* C8's case: sumulas is no array, one organ group's value is no list, and
\* the other group, the precedentes and the stored documents are merged
W_C8_ColecaoDeOutraForma ==
    /\ PayloadEhObjeto
    /\ payloadCarregado.sumulas.forma = "outro"
    /\ payloadCarregado.ojs.forma = "mapa"
    /\ Len(payloadCarregado.ojs.grupos) = 2
    /\ payloadCarregado.ojs.grupos[1].valor.forma = "outro"
    /\ DeTipo("oj") # <<>>
    /\ DeTipo("precedente") # <<>>
    /\ DeTipo("informativo") # <<>>

\* the six stores, in the order of ChavesStores
stores ==
    <<favoritos, anotacoes, tags, correlacoes, informativos, tesesVinculantes>>

\* the durable value of the i-th store, an absent key counting as the empty
\* collection
Guardado(i) ==
    IF localStorage[ChavesStores[i]] = Nulo
    THEN (IF i \in {2, 3, 4} THEN MapaVazio ELSE <<>>)
    ELSE JSONparse(localStorage[ChavesStores[i]])

\* C9: when exactly one store key holds corrupted JSON at start-up,
\* carregarDados ends without an unhandled fault and goes on to the dataset
\* load, that store is empty and every other store holds its durable value.
CE_C9_UmaChaveCorrompida ==
    \A k \in 1..Len(ChavesStores) :
        (/\ pc # "inicio"
         /\ localStorage[ChavesStores[k]] = Corrompido
         /\ \A j \in 1..Len(ChavesStores) :
                j # k => localStorage[ChavesStores[j]] # Corrompido)
        => /\ pc # "falha"
           /\ stores[k] = <<>>
           /\ \A j \in 1..Len(ChavesStores) : j # k => stores[j] = Guardado(j)

\* C10: from empty stores, after every operation of a started page the
\* durable value under each store key equals the in-memory store.
CE_C10_EscritaImediata ==
    pc # "inicio" => \A i \in 1..Len(ChavesStores) : stores[i] = Guardado(i)

\* x is in the catalogue or is a favourite or a key of a personal store
Mantido(x) ==
    \/ \E i \in 1..Len(todosItens) : todosItens[i].id = x
    \/ includes(favoritos, x)
    \/ x \in DOMAIN anotacoes
    \/ x \in DOMAIN tags
    \/ x \in DOMAIN correlacoes

\* C11: when the storage write of an operation fails, the operation's
\* in-memory effect is complete all the same: after such an upload the new
\* item is in its uploaded collection and in todosItens, and after such a
\* removerDocumento(x, tipo) x is in none of todosItens, favoritos, anotacoes,
\* tags and correlacoes.
CE_C11_FalhaDeEscrita ==
    [][/\ \A tipo \in TiposEnvio, tipoTese \in TiposTese :
              ReaderOnloadEscritaFalha(tipo, tipoTese) =>
                  /\ includes((IF tipo = "informativo" THEN informativos
                               ELSE tesesVinculantes)', novoItem(tipo, tipoTese))
                  /\ includes(todosItens', novoItem(tipo, tipoTese))
       /\ \A x \in IdsAlvo, tipo \in TiposRemocao :
              RemoverDocumentoEscritaFalha(x, tipo) => ~Mantido(x)']_vars

\* the uploaded collection a document of the kind tipo belongs to
colecaoDe(tipo) == IF tipo = "informativo" THEN informativos ELSE tesesVinculantes

\* C12: when the text extraction of an uploaded file fails, processarArquivo
\* still ends with a new item for the file in its uploaded collection and in
\* todosItens.
CE_C12_ExtracaoFalha ==
    [][\A tipo \in TiposEnvio :
            ExtracaoTermina(tipo, FALSE) =>
                /\ Len(colecaoDe(tipo)') = Len(colecaoDe(tipo)) + 1
                /\ Len(todosItens') = Len(todosItens) + 1]_vars

\* the uploaded documents of the catalogue
enviadosNoCatalogo ==
    SelectSeq(todosItens, LAMBDA item : item.source # "jurisprudencia")

\* C13: any two uploaded documents have different ids, also when their
\* reader.onload callbacks read the same Date.now().
CE_C13_IdsDeEnviosDistintos ==
    \A i \in 1..Len(enviadosNoCatalogo), j \in 1..Len(enviadosNoCatalogo) :
        i # j => enviadosNoCatalogo[i].id # enviadosNoCatalogo[j].id

\* C14: from the empty store, after every salvarAnotacao no key of anotacoes
\* maps to an empty or white-space-only text; salvarAnotacao(id, texto)
\* leaves id absent when texto is empty or white space only and present,
\* with that text, otherwise.
T_C14_SemAnotacaoVazia ==
    [][/\ \A k \in DOMAIN anotacoes' : trim(anotacoes'[k]) # <<>>
       /\ \A id \in IdsAlvo, texto \in TextosAnotacao :
              SalvarAnotacao(id, texto) =>
                  IF trim(texto) = <<>>
                  THEN id \notin DOMAIN anotacoes'
                  ELSE id \in DOMAIN anotacoes' /\ anotacoes'[id] = texto]_vars

\* C14's case: an item holds a text with white space before it, the other
\* items have no annotation, and the store is written through
W_C14_GuardadaERemovida ==
    \E a \in IdsAlvo, b \in IdsAlvo :
        /\ DOMAIN anotacoes = {a}
        /\ a # b
        /\ anotacoes[a] = <<" ", "n">>
        /\ localStorage["juristst_anotacoes"] = JSONstringify(anotacoes)

\* C15: from the empty store, after every adicionarTag and removerTag, with
\* tags typed with or without white space around them, no item's tag list
\* holds the same tag twice.
CE_C15_TagsSemRepeticao ==
    \A id \in DOMAIN tags : SemRepetidos(tags[id])

\* C16: from the empty store, after every adicionarTag and removerTag (an
\* adicionarTag of an empty or blank tag on an item without tags included),
\* an id is a key of tags only if it has at least one tag: no key maps to
\* the empty list.
CE_C16_SemListaVazia ==
    \A id \in DOMAIN tags : tags[id] # <<>>

\* C17: from the empty store, after every adicionarCorrelacao and
\* removerCorrelacao no key of correlacoes maps to the empty list, and the
\* two items of a removerCorrelacao that are left without correlations have
\* no entry.
T_C17_SemEntradaVazia ==
    [][/\ \A k \in DOMAIN correlacoes' : correlacoes'[k] # <<>>
       /\ \A a \in IdsAlvo, b \in IdsAlvo :
              RemoverCorrelacao(a, b) =>
                  \A x \in {a, b} :
                      (x \in DOMAIN correlacoes /\ filterDiferente(correlacoes[x],
                            IF x = a THEN b ELSE a) = <<>>)
                          => x \notin DOMAIN correlacoes']_vars

\* C17's case: of three items one has no entry while the other two are
\* correlated, the store having been written
W_C17_EntradaRemovida ==
    \E a \in IdsAlvo, b \in IdsAlvo, c \in IdsAlvo :
        /\ a # b /\ b # c /\ a # c
        /\ DOMAIN correlacoes = {a, b}
        /\ correlacoes[a] = <<a, b>>
        /\ correlacoes[b] = <<a>>
        /\ localStorage["juristst_correlacoes"] = JSONstringify(correlacoes)

\* how many times toggleFavorito(id) has been called
vezesAlternado(id) ==
    Cardinality({i \in 1..Len(alternados) : alternados[i] = id})

\* the position, among the calls, of the latest toggleFavorito(id)
ultimaAlternancia(id) ==
    CHOOSE i \in 1..Len(alternados) :
        alternados[i] = id /\ \A j \in (i + 1)..Len(alternados) : alternados[j] # id

\* C18: from the empty list, after every sequence of toggleFavorito calls
\* favoritos holds no id twice, holds an id iff toggleFavorito has been called
\* with it an odd number of times, and holds its ids in the order in which
\* they were last added.
T_C18_FavoritosOrdenados ==
    /\ SemRepetidos(favoritos)
    /\ \A id \in IdsAlvo : includes(favoritos, id) <=> vezesAlternado(id) % 2 = 1
    /\ \A i \in 1..Len(favoritos), j \in 1..Len(favoritos) :
            i < j => ultimaAlternancia(favoritos[i]) < ultimaAlternancia(favoritos[j])

\* C18's case: an id added, removed and added again stands after the id
\* that was added between
W_C18_ReadicionadoNoFim ==
    \E a \in IdsAlvo, b \in IdsAlvo :
        /\ a # b
        /\ alternados = <<a, b, a, a>>
        /\ favoritos = <<b, a>>
        /\ localStorage["juristst_favoritos"] = JSONstringify(favoritos)


(***************************************************************************)
(* The status filter and the tag filter of the search.                     *)
(***************************************************************************)
\* the result of the search with the inputs f were the status not looked at
semStatus(f) == realizarBusca(f, "todos")

\* the status the item has to have under the status filter
statusAdmite(item, status) ==
    \/ status = "todos"
    \/ status = "vigentes" /\ ~item.cancelada
    \/ status = "canceladas" /\ item.cancelada

\* the result of a step that searched with the inputs f respects the status
\* filter the step leaves
statusRespeitado(f) ==
    /\ statusFiltro' = "vigentes"
            => \A i \in 1..Len(itensFiltrados') : ~itensFiltrados'[i].cancelada
    /\ statusFiltro' = "canceladas"
            => \A i \in 1..Len(itensFiltrados') : itensFiltrados'[i].cancelada
    /\ itensFiltrados' =
            SelectSeq(semStatus(f), LAMBDA item : statusAdmite(item, statusFiltro'))

\* C19: after a search (realizarBusca, also through filtrarPorStatus and
\* limparFiltros) the result holds no cancelled item when the status filter
\* is 'vigentes', only cancelled items when it is 'canceladas', and in every
\* case it is exactly what the other filters let through restricted to the
\* items the status admits, so that 'todos' restricts nothing.
T_C19_FiltroDeStatus ==
    [][/\ (RealizarBusca \/ \E status \in ValoresStatus : FiltrarPorStatus(status))
            => statusRespeitado(filtro)
       /\ LimparFiltros => statusRespeitado(FiltroLimpo)]_vars

\* the cancelled súmula is in the catalogue, the status filter is
\* 'canceladas' and the result of the search is that súmula alone
W_C19_SoACancelada ==
    /\ statusFiltro = "canceladas"
    /\ Len(todosItens) = 4
    /\ Len(itensFiltrados) = 1
    /\ itensFiltrados[1].cancelada
    /\ itensFiltrados[1].id = gerarIdConsistente("sumula", <<"2", "-", "A">>)
    /\ \E i \in 1..Len(todosItens) : ~todosItens[i].cancelada

\* the result of the search were the tag filter empty
semTags == realizarBusca([filtro EXCEPT !.tags = <<>>], statusFiltro)

\* every required tag of the list, trimmed and normalised, is a substring of
\* a normalised tag of the item
todasAsTagsContidas(item, tagsFiltro, mapa) ==
    LET itemTags == tagsDe(mapa, item.id)
        exigidas == split(tagsFiltro, ",")
    IN  \A k \in 1..Len(exigidas) :
            \E j \in 1..Len(itemTags) :
                indexOf(normalizarTexto(itemTags[j]),
                        normalizarTexto(trim(exigidas[k]))) # 0

\* C20: after a search with a non-empty tag filter, an item the other
\* filters let through is in the result if and only if every required tag
\* of the list, trimmed and normalised, is a substring of one of the
\* normalised tags stored for the item.
CE_C20_FiltroDeTags ==
    [][(RealizarBusca /\ trim(filtro.tags) # <<>>)
        => \A i \in 1..Len(semTags) :
                (\E j \in 1..Len(itensFiltrados') : itensFiltrados'[j] = semTags[i])
                <=> todasAsTagsContidas(semTags[i], trim(filtro.tags), tags)]_vars

(***************************************************************************)
(* Uploads and removals around a load that succeeds: the storage holds     *)
(* nothing, or a bulletin and a thesis stored with or without their ids,   *)
(* and a write of reader.onload may throw.                                 *)
(***************************************************************************)
\* <<the stored bulletins, the stored theses>>
EnviosGuardados ==
    {<<Nulo, Nulo>>,
     <<JSONstringify(<<BoletimBusca>>),
       JSONstringify(<<ItemEnviado(gerarIdConsistente("tese",
                                        <<"u", "p", "l", "o", "a", "d", "_">>
                                            \o String(1000001)),
                                   <<"f">>, "irr", "tese", <<>>)>>)>>,
     <<JSONstringify(<<ItemEnviado(<<>>, <<"g">>, "informativo", "informativo", <<>>)>>),
       Nulo>>}

InitEnvios ==
    /\ InitMemoria
    /\ InitPagina
    /\ \E e \in EnviosGuardados : localStorage = StorageCom(Nulo, e)
    /\ remoto = RespostaJson(PayloadBusca)

\* removerDocumento, confirmed, on an uploaded document of the catalogue with
\* the type its card passes
RemoverEnviado ==
    \E i \in 1..Len(todosItens) :
        /\ todosItens[i].source \in TiposEnvio
        /\ RemoverDocumento(todosItens[i].id, todosItens[i].source, TRUE)

NextEnvios ==
    \/ Livre(CarregarDados)
    \/ Livre(FetchResponde)
    \/ Livre(Tique)
    \/ \E tipo \in TiposEnvio : Contado(ProcessarArquivo(tipo, TRUE))
    \/ \E tipo \in TiposEnvio, ok \in BOOLEAN : Livre(ExtracaoTermina(tipo, ok))
    \/ \E tipo \in TiposEnvio : Livre(ReaderOnload(tipo, "irr"))
    \/ \E tipo \in TiposEnvio : Livre(ReaderOnloadEscritaFalha(tipo, "irr"))
    \/ Contado(RemoverEnviado)

SpecEnvios == InitEnvios /\ [][NextEnvios]_vars


(***************************************************************************)
(* The free-text filter, the scope and the order of the search.            *)
(***************************************************************************)
\* the candidates of the search that every filter but the free text lets
\* through
semTexto ==
    SelectSeq(itensParaFiltrar(todosItens, currentTab, trim(filtro.busca)),
              LAMBDA item :
                  /\ passaStatus(item, statusFiltro)
                  /\ passaTipo(item, filtro.tipo)
                  /\ passaOrgao(item, filtro.orgao)
                  /\ passaNumero(item, trim(filtro.numero))
                  /\ passaTags(item, trim(filtro.tags), tags))

\* s split on white space
RECURSIVE splitBrancos(_)
splitBrancos(s) ==
    LET ks == {k \in 1..Len(s) : s[k] \in Brancos}
    IN  IF ks = {} THEN <<s>>
        ELSE LET k == CHOOSE j \in ks : \A i \in ks : j <= i
             IN  <<SubSeq(s, 1, k - 1)>> \o splitBrancos(SubSeq(s, k + 1, Len(s)))

\* the item's number, title, text, extracted text and stored annotation
concatenacao(item, notas) ==
    item.numero \o <<" ">> \o item.titulo \o <<" ">> \o item.texto \o <<" ">>
        \o item.textoExtraido \o <<" ">>
        \o (IF item.id \in DOMAIN notas THEN notas[item.id] ELSE <<>>)

\* every token of the free text longer than two characters occurs, both
\* sides normalised, in the concatenation
todosOsTermosContidos(item, busca, notas) ==
    LET termos == SelectSeq(splitBrancos(busca), LAMBDA t : Len(t) > 2)
    IN  \A k \in 1..Len(termos) :
            indexOf(normalizarTexto(concatenacao(item, notas)),
                    normalizarTexto(termos[k])) # 0

\* C21: after a search, an item the other filters let through is in the
\* result if and only if every token of the free text (split on white
\* space, tokens of at most two characters discarded) occurs, after
\* normalisation of both sides, in the concatenation of the item's number,
\* title, text, extracted text and stored annotation.
CE_C21_FiltroDeTexto ==
    [][RealizarBusca
        => \A i \in 1..Len(semTexto) :
                (\E j \in 1..Len(itensFiltrados') : itensFiltrados'[j] = semTexto[i])
                <=> todosOsTermosContidos(semTexto[i], trim(filtro.busca), anotacoes)]_vars

\* the filter callback of the search with the inputs f and the status filter
\* status
todosOsFiltros(item, f, status) ==
    /\ passaStatus(item, status)
    /\ passaTipo(item, f.tipo)
    /\ passaOrgao(item, f.orgao)
    /\ passaNumero(item, trim(f.numero))
    /\ passaTags(item, trim(f.tags), tags)
    /\ passaBusca(item, trim(f.busca), anotacoes)

\* the result of a step that searched with the inputs f keeps the scope rule
escopoRespeitado(f) ==
    /\ currentTab = "jurisprudencia"
            => \A i \in 1..Len(itensFiltrados') :
                    itensFiltrados'[i].source = "jurisprudencia"
    /\ itensFiltrados' =
            SelectSeq(IF currentTab # "jurisprudencia"
                         /\ normalizarTexto(trim(f.busca)) # <<>>
                      THEN todosItens
                      ELSE filterJurisprudencia(todosItens),
                      LAMBDA item : todosOsFiltros(item, f, statusFiltro'))

\* C22: after a search on the tab 'jurisprudencia' every item of the result
\* has source 'jurisprudencia' whatever the free text; on another tab the
\* filters are applied to the whole of todosItens exactly when the
\* normalised free text is not empty, and to the case-law items otherwise.
T_C22_RegraDeEscopo ==
    [][/\ (RealizarBusca \/ \E status \in ValoresStatus : FiltrarPorStatus(status))
            => escopoRespeitado(filtro)
       /\ LimparFiltros => escopoRespeitado(FiltroLimpo)]_vars

\* on the tab 'informativos' the free text 'ura' was searched and the
\* uploaded bulletin is in the result, next to a case-law item
W_C22_BoletimNoResultado ==
    /\ currentTab = "informativos"
    /\ filtro.busca = <<"u", "r", "a">>
    /\ \E i \in 1..Len(itensFiltrados) : itensFiltrados[i] = BoletimBusca
    /\ \E i \in 1..Len(itensFiltrados) : itensFiltrados[i].source = "jurisprudencia"

\* whether r is t with some of its elements left out
RECURSIVE EhSubsequencia(_, _)
EhSubsequencia(r, t) ==
    IF r = <<>> THEN TRUE
    ELSE IF t = <<>> THEN FALSE
    ELSE IF Head(r) = Head(t) THEN EhSubsequencia(Tail(r), Tail(t))
    ELSE EhSubsequencia(r, Tail(t))

\* C23: after a search the result is todosItens, as it is when the search
\* runs, with some items left out: every item of the result is an item of
\* todosItens, none is there twice, and the items keep the order they have
\* in todosItens.
T_C23_SubsequenciaOrdenada ==
    [][(\/ RealizarBusca
        \/ \E status \in ValoresStatus : FiltrarPorStatus(status)
        \/ LimparFiltros)
        => /\ EhSubsequencia(itensFiltrados', todosItens)
           /\ \A i, j \in 1..Len(itensFiltrados') :
                    itensFiltrados'[i] = itensFiltrados'[j] => i = j]_vars

\* the result holds the first, the third and the fourth of the five items of
\* todosItens, in that order: the second was left out
W_C23_UmItemSaltado ==
    /\ Len(todosItens) = 5
    /\ itensFiltrados = <<todosItens[1], todosItens[3], todosItens[4]>>

\* C28: every item of the result set itensFiltrados has an id that an item
\* of todosItens has: the result set holds no removed document.
CE_C28_ResultadoSemRemovidos ==
    \A i \in 1..Len(itensFiltrados) :
        \E j \in 1..Len(todosItens) : todosItens[j].id = itensFiltrados[i].id

(***************************************************************************)
(* The statistics.                                                         *)
(***************************************************************************)
\* C24: once processarDadosCarregados has run calcularEstatisticas,
\* stats.total is the number of items of todosItens whose source is
\* 'jurisprudencia', uploaded documents not counted, and stats.total is
\* stats.vigentes + stats.canceladas.
T_C24_TotalDaJurisprudencia ==
    pc = "pronto"
    => /\ stats.total =
            Cardinality({i \in 1..Len(todosItens) :
                            todosItens[i].source = "jurisprudencia"})
       /\ stats.total = stats.vigentes + stats.canceladas

\* the statistics count a vigente and a cancelled item, and todosItens holds
\* uploaded documents as well
W_C24_ComEnviosForaDaConta ==
    /\ pc = "pronto"
    /\ stats.vigentes >= 1
    /\ stats.canceladas >= 1
    /\ Len(todosItens) > stats.total

(***************************************************************************)
(* The correlation lists.                                                  *)
(***************************************************************************)
\* C25: whatever adicionarCorrelacao(id1, id2) calls were made, calls with
\* id1 = id2 among them, no item's correlation list holds the item's own id.
CE_C25_SemAutoCorrelacao ==
    \A id \in DOMAIN correlacoes : ~includes(correlacoes[id], id)

\* C29: from the empty store, whatever adicionarCorrelacao and
\* removerCorrelacao calls were made, no correlation list holds an id twice.
T_C29_ListasSemRepeticao ==
    \A id \in DOMAIN correlacoes :
        \A i, j \in 1..Len(correlacoes[id]) :
            correlacoes[id][i] = correlacoes[id][j] => i = j

\* every one of the three items is correlated with the two others: each pair
\* was added, and each list holds two different ids
W_C29_TodosOsPares ==
    /\ DOMAIN correlacoes = IdsAlvo
    /\ \A id \in IdsAlvo :
            /\ Len(correlacoes[id]) = 2
            /\ \A outro \in IdsAlvo \ {id} : includes(correlacoes[id], outro)

(***************************************************************************)
(* The removal of a tag.                                                   *)
(***************************************************************************)
\* C26: removerTag(id, tag) leaves in id's list the tags other than tag, in
\* the order they had, and tag is no longer among them; id keeps an entry
\* exactly when that list is not empty; the entries of the other items are
\* as they were; and when tag was not in id's list the tag store is as it
\* was.
CE_C26_RemocaoExata ==
    [][\A id \in IdsAlvo, tag \in TagsDeTeste :
        RemoverTag(id, tag)
        => /\ ~includes(tagsDe(tags', id), tag)
           /\ tagsDe(tags', id) = SelectSeq(tagsDe(tags, id), LAMBDA t : t # tag)
           /\ id \in DOMAIN tags' <=> tagsDe(tags', id) # <<>>
           /\ \A outro \in (DOMAIN tags \cup DOMAIN tags') \ {id} :
                    /\ outro \in DOMAIN tags /\ outro \in DOMAIN tags'
                    /\ tags'[outro] = tags[outro]
           /\ ~includes(tagsDe(tags, id), tag) => tags' = tags]_vars

(***************************************************************************)
(* The uploaded documents of the catalogue and of the two collections.     *)
(***************************************************************************)
\* the ids of the uploaded documents of todosItens
idsEnviadosNoCatalogo ==
    {todosItens[i].id : i \in {j \in 1..Len(todosItens) :
                                    todosItens[j].source # "jurisprudencia"}}

\* the ids of the items of informativos and tesesVinculantes
idsNasColecoes ==
    {informativos[i].id : i \in 1..Len(informativos)}
        \cup {tesesVinculantes[i].id : i \in 1..Len(tesesVinculantes)}

\* C27: once the load has merged the dataset, whatever uploads completed
\* (before or after the merge) and whatever uploaded documents were removed
\* with their own type, the ids of the uploaded documents of todosItens are
\* the ids of the items of informativos and tesesVinculantes.
CE_C27_EnviosNosDoisLados ==
    pc = "pronto" => idsEnviadosNoCatalogo = idsNasColecoes

(***************************************************************************)
(* The source of the dataset.                                              *)
(***************************************************************************)
\* C30: when carregarJurisprudencia runs, the fetch is started exactly when
\* the local copy 'juristst_data' is absent or JSON.parse throws on it; a
\* copy JSON.parse throws on is removed from localStorage before the fetch;
\* a copy that parses is kept, is the payload processed, and no fetch is
\* started; and a fetch only ever answers with no local copy in the storage.
T_C30_OrdemDasFontes ==
    [][/\ (CarregarDados /\ pc' # "falha")
            => LET dadosLocais == localStorage[ChaveDados]
                   parseOk == dadosLocais # Nulo /\ JSONparseOk(dadosLocais)
               IN  /\ pc' = "buscando" <=> ~parseOk
                   /\ ~parseOk => localStorage'[ChaveDados] = Nulo
                   /\ parseOk
                        => /\ localStorage'[ChaveDados] = dadosLocais
                           /\ pc' \in {"pronto", "erro_processar"}
                           /\ dadosTST' = IF ehObjeto(JSONparse(dadosLocais))
                                          THEN normalizarDados(JSONparse(dadosLocais))
                                          ELSE JSONparse(dadosLocais)
       /\ FetchResponde => localStorage[ChaveDados] = Nulo]_vars

\* the local copy parsed and was processed: the catalogue is built from it
\* and the server, which does not answer, was not asked
W_C30_CopiaLocalProcessada ==
    /\ pc = "pronto"
    /\ remoto.forma = "rede"
    /\ localStorage[ChaveDados].forma = "json"
    /\ dadosTST = normalizarDados(JSONparse(localStorage[ChaveDados]))
    /\ Len(todosItens) > 0
=============================================================================
